---- MODULE Spec2Model ----
(***************************************************************************)
(* Model of the plugin Registry of go-plugin-framework                      *)
(* (registry/registry.go) together with the handshake it drives             *)
(* (registry/plugins, WaitForPlugin) and the plugin identity the Manager    *)
(* assigns at discovery (manager, fetchPlugins).                            *)
(*                                                                         *)
(* Every Registry method is a sequence of steps of the calling goroutine:   *)
(* taking r.mu, the statements of the body, and the deferred unlock.  The   *)
(* loops over Go maps iterate in an order the runtime picks, so each        *)
(* iteration takes any remaining key.                                       *)
(*                                                                         *)
(* The PluginManager (package manager) sits on top: RegisterPlugins holds   *)
(* pm.mu while it probes the connection type, walks the directory, queries  *)
(* each candidate's capabilities and hands it to the Registry; Shutdown     *)
(* holds pm.mu around Registry.Shutdown.  Spec is the Registry called       *)
(* directly, ManagerSpec the Manager called by two goroutines, CancelSpec   *)
(* one goroutine whose base context may be cancelled.                       *)
(*                                                                         *)
(* CommandSpec is the command line the Manager builds from a plugin path    *)
(* (cleanPath).  HandshakeSpec is WaitForPlugin and waitForPluginReady      *)
(* step by step, against a process that prints a first line or exits.       *)
(* RuntimeSpec is the plugin process itself (package sdk): start-up, work   *)
(* tracking, idle check and teardown; RuntimeFairSpec adds its scheduling;  *)
(* LocationSpec is the start-up of the process with the reader of its       *)
(* stdout.                                                                  *)
(*                                                                         *)
(* LockSpec is the lock file of a Unix socket path with several plugin      *)
(* processes contending for it.  ConfigSpec is the JSON encoding of a       *)
(* Config and its parsing by the plugin; BatchSpec the Configs one          *)
(* RegisterPlugins call assigns.  DiscoverySpec is fetchPlugins over trees  *)
(* whose entries have a file mode.  CallCtxSpec adds the cancellation of    *)
(* the context passed to RegisterPlugins, ConcurrentSpec the four methods   *)
(* of the Manager called concurrently (ConcurrentFairSpec with locks that   *)
(* starve nobody), ShutdownsSpec repeated Shutdowns with a history of the   *)
(* interrupts sent.                                                         *)
(***************************************************************************)
EXTENDS Integers, FiniteSets, Sequences, TLC

\* ---------------------------------------------------------------- bounds
\* number of ExternalPlugin objects the Registry allocates in one behaviour
MaxExternal == 2

\* number of plugin processes left running without a Registry entry
MaxOrphans == 1

\* ------------------------------------------------------------ input sets
\* goroutines calling into the Registry
Threads == {"g1", "g2"}

\* capability type names
TypeNames == {"A", "B"}

\* in-process implementations (contracts.PluginBase values)
Impls == {"i1", "i2"}

\* executables found by the directory walk: two of them share a base name
Paths == {<<"dir", "a", "p">>, <<"dir", "b", "p">>, <<"dir", "a", "q">>}

\* filepath.Base(path): the last element of the path
Base(path) == path[Len(path)]

\* types.Plugin as the Manager builds it, restricted to the fields the
\* Registry reads: ID is the base name of the path, Types is whatever the
\* capabilities document declared
PluginOf(path, types) == [ID |-> Base(path), Types |-> types]

Plugins == {PluginOf(pa, ts) : pa \in Paths, ts \in SUBSET TypeNames}

\* --------------------------------------------------------------- values
NoImpl == "none"
NoExt == 0
NoThread == "none"
NoType == "none"
NoPluginDesc == [ID |-> "none", Types |-> {}]

\* errors: one record shape for every error the Registry returns
Err(kind, name, ids) == [kind |-> kind, name |-> name, ids |-> ids]
Nil == Err("nil", "none", {})
ErrInternalRegistered(t) == Err("internal plugin already registered", t, {})
ErrExternalRegistered(t) == Err("external plugin already registered", t, {})
ErrStart(id) == Err("failed to start plugin", id, {})
ErrWait(id) == Err("failed to wait for plugin to start", id, {})
ErrNotFound(t) == Err("no plugin found", t, {})
ErrJoin(ids) == Err("failed to send interrupt", "none", ids)

\* the value GetPlugin hands back: an internal implementation, the Client
\* (wrapper) of an ExternalPlugin, or nil
Provider(kind, impl, ext) == [kind |-> kind, impl |-> impl, ext |-> ext]
NoProvider == Provider("nil", NoImpl, NoExt)
InternalProvider(i) == Provider("internal", i, NoExt)
ExternalProvider(e) == Provider("external", NoImpl, e)

\* errors of the PluginManager
ErrNoPluginsFound == Err("no plugins found", "none", {})
ErrConnectionType == Err("could not determine connection type", "none", {})
ErrFetch(cause) == Err("could not fetch plugins", cause, {})
ErrUnmarshal(id) == Err("failed to unmarshal capabilities", id, {})

\* the two states of a context.Context
Live == "live"
Cancelled == "cancelled"

NoPath == <<>>

VARIABLES
    internalPlugins,  \* Registry.internalPlugins: type -> implementation
    externalPlugins,  \* Registry.externalPlugins: type -> *ExternalPlugin
    mu,               \* Registry.mu: the writer and the readers holding it
    exts,             \* the ExternalPlugin objects AddExternalPlugin allocated
    pc,               \* position of each goroutine
    fr,               \* locals of the call each goroutine is in
    ret,              \* value the call is about to return
    sigs,             \* interrupts sent to each process by the running Shutdown
    accepted,         \* history: providers whose registration for a type returned nil
    seen,             \* history: the first provider GetPlugin returned for a type
    pmu,              \* PluginManager.mu: the goroutine holding it
    mpc,              \* position of each goroutine inside the PluginManager
    mfr,              \* locals of the PluginManager call each goroutine is in
    baseCtx,          \* PluginManager.baseCtx, which is also Registry.ctx
    orphans,          \* started plugin processes that no ExternalPlugin holds
    killed,           \* the ExternalPlugins whose process was killed
    cmd,              \* the exec.Cmd the Manager is building: Path and argument
    stdout,           \* the lines a plugin process has written to its stdout
    hs,               \* locals of WaitForPlugin reading that stdout
    wr,               \* locals of waitForPluginReady and the clock it runs on
    rt,               \* the sdk.Plugin of a plugin process and its environment
    callCtx,          \* the context the host passes to RegisterPlugins
    disc,             \* a directory tree and what fetchPlugins made of it
    cfg,              \* the Configs RegisterPlugins assigns and their JSON
    lk,               \* the lock file of a Unix socket path and its contenders
    signalled         \* history: the processes Shutdown calls have interrupted

\* the PluginManager's own state
mgrVars == <<pmu, mpc, mfr>>

\* the context and the processes outside the Registry's maps
procVars == <<baseCtx, orphans, killed>>

\* the command line, the plugin process and the handshake with it
childVars == <<cmd, stdout, hs, wr, rt>>

\* the per-call context, the worlds of the directory walk, of the Config
\* and of the lock file, and the history of interrupts
envVars == <<callCtx, disc, cfg, lk, signalled>>

vars == <<internalPlugins, externalPlugins, mu, exts, pc, fr, ret, sigs,
          accepted, seen, pmu, mpc, mfr, baseCtx, orphans, killed,
          cmd, stdout, hs, wr, rt, callCtx, disc, cfg, lk, signalled>>

Snapshot == [int |-> internalPlugins, ext |-> externalPlugins]

NoFrame == [type |-> NoType, impl |-> NoImpl, plugin |-> NoPluginDesc,
            started |-> "none", handshake |-> [line |-> "none",
                                               client |-> FALSE,
                                               ready |-> "none"],
            ext |-> NoExt, procs |-> 0,
            todo |-> {}, processed |-> {}, errs |-> {}, failed |-> {},
            snap |-> [int |-> [t \in TypeNames |-> NoImpl],
                      ext |-> [t \in TypeNames |-> NoExt]]]

NoRet == [err |-> Nil, val |-> NoProvider]

\* processes started by Cmd.Start so far: those an ExternalPlugin holds,
\* those no ExternalPlugin holds, and those whose handshake is being awaited
Spawned == Len(exts) + orphans.running + orphans.killed
           + Cardinality({g \in Threads : pc[g] = "ae_wait"})

\* the locals of RegisterPlugins and of the Manager's Shutdown, with the
\* history of the batch: the candidates whose capabilities were queried,
\* whose query failed, whose long-running process was started, which were
\* registered, and which the Registry rejected as duplicates
NoMFrame == [dir |-> <<>>, filter |-> {},
             found |-> {}, queue |-> <<>>, cur |-> NoPath,
             plugin |-> NoPluginDesc,
             queried |-> {}, badcaps |-> {}, launched |-> {},
             registered |-> {}, rejected |-> {},
             err |-> Nil, procs |-> 0,
             snap |-> [int |-> [t \in TypeNames |-> NoImpl],
                       ext |-> [t \in TypeNames |-> NoExt]]]

\* no command built yet
NoCmd == [Path |-> <<>>, Arg |-> <<>>, built |-> FALSE]

\* WaitForPlugin not called yet
NoHandshakeRead == [pc |-> "idle"]

\* waitForPluginReady not called yet
NoWait == [pc |-> "idle"]

\* no plugin process yet
NoRuntime == [state |-> "none"]
NoWalk == [walked |-> FALSE]
NoBatch == [assigned |-> FALSE]
NoLockWorld == [lock |-> 0, listener |-> 0, proc |-> <<>>]
\* no process interrupted yet, none interrupted a second time
NoSignal == [once |-> {}, again |-> {}]

\* NewRegistry: two empty maps, an unlocked mutex
Init ==
    /\ internalPlugins = [t \in TypeNames |-> NoImpl]
    /\ externalPlugins = [t \in TypeNames |-> NoExt]
    /\ mu = [writer |-> NoThread, readers |-> {}]
    /\ exts = <<>>
    /\ pc = [g \in Threads |-> "idle"]
    /\ fr = [g \in Threads |-> NoFrame]
    /\ ret = [g \in Threads |-> NoRet]
    /\ sigs = <<>>
    /\ accepted = [t \in TypeNames |-> <<>>]
    /\ seen = [t \in TypeNames |-> NoProvider]
    /\ pmu = NoThread
    /\ mpc = [g \in Threads |-> "idle"]
    /\ mfr = [g \in Threads |-> NoMFrame]
    /\ baseCtx = Live
    /\ orphans = [running |-> 0, killed |-> 0]
    /\ killed = {}
    /\ cmd = NoCmd
    /\ stdout = <<>>
    /\ hs = NoHandshakeRead
    /\ wr = NoWait
    /\ rt = NoRuntime
    /\ callCtx = Live
    /\ disc = NoWalk
    /\ cfg = NoBatch
    /\ lk = NoLockWorld
    /\ signalled = NoSignal

\* ------------------------------------------------------- sync.RWMutex
\* a Lock that waits for the readers only
CanLockIgnoringWriter(m) == m.readers = {}

\* an RLock that never waits
CanRLockAlways(m) == TRUE

\* Lock: no writer and no reader holds the mutex
CanLock(m) == m.writer = NoThread /\ m.readers = {}

\* RLock: no writer holds the mutex
CanRLock(m) == m.writer = NoThread

Lock(g) == /\ CanLock(mu)
           /\ mu' = [mu EXCEPT !.writer = g]

Unlock(g) == /\ mu.writer = g
             /\ mu' = [mu EXCEPT !.writer = NoThread]

RLock(g) == /\ CanRLock(mu)
            /\ mu' = [mu EXCEPT !.readers = @ \cup {g}]

RUnlock(g) == /\ g \in mu.readers
              /\ mu' = [mu EXCEPT !.readers = @ \ {g}]

\* the error RegisterPlugins carries out of the loop when addPlugin failed
\* for a candidate: none, the failure is logged and the loop continues
EscalatedError(err) == err

AbsorbedError(err) == Nil

\* a Registry call made by the PluginManager returns into the Manager's
\* method: RegisterPlugins logs the result of addPlugin and goes on with the
\* next candidate, Shutdown returns what Registry.Shutdown returned
ReturnToManager(g) ==
    IF mpc[g] = "rp_call"
    THEN LET c == mfr[g].cur
             err == ret[g].err
             out == AbsorbedError(err)
         IN /\ mpc' = [mpc EXCEPT ![g] = IF out = Nil THEN "rp_loop" ELSE "rp_ret"]
            /\ mfr' = [mfr EXCEPT
                  ![g].cur = NoPath,
                  ![g].plugin = NoPluginDesc,
                  ![g].err = out,
                  ![g].launched = IF fr[g].started = "started"
                                  THEN @ \cup {c} ELSE @,
                  ![g].registered = IF err = Nil THEN @ \cup {c} ELSE @,
                  ![g].rejected =
                      IF err.kind \in {"internal plugin already registered",
                                       "external plugin already registered"}
                      THEN @ \cup {c} ELSE @]
            /\ UNCHANGED pmu
    ELSE IF mpc[g] = "ms_call"
         THEN /\ mpc' = [mpc EXCEPT ![g] = "ms_ret"]
              /\ mfr' = [mfr EXCEPT ![g].err = ret[g].err]
              /\ UNCHANGED pmu
         ELSE UNCHANGED mgrVars

\* the deferred unlock ends the call: its locals and return value go away
EndCall(g) == /\ pc' = [pc EXCEPT ![g] = "idle"]
              /\ fr' = [fr EXCEPT ![g] = NoFrame]
              /\ ret' = [ret EXCEPT ![g] = NoRet]

\* --------------------------------------------------- RegisterInternal
\* a RegisterInternal that stores the plugin before it looks for a duplicate
RegisterInternalStoreFirst(int, pluginType, plugin) ==
    [err |-> IF int[pluginType] # NoImpl
             THEN ErrInternalRegistered(pluginType) ELSE Nil,
     int |-> [int EXCEPT ![pluginType] = plugin]]

\* the body of RegisterInternal: the error it returns and the map it leaves
RegisterInternalResult(int, pluginType, plugin) ==
    IF int[pluginType] # NoImpl
    THEN [err |-> ErrInternalRegistered(pluginType), int |-> int]
    ELSE [err |-> Nil, int |-> [int EXCEPT ![pluginType] = plugin]]

RI_Lock(g, t, i) ==
    /\ pc[g] = "idle"
    /\ Lock(g)
    /\ pc' = [pc EXCEPT ![g] = "ri_body"]
    /\ fr' = [fr EXCEPT ![g] = [NoFrame EXCEPT !.type = t, !.impl = i,
                                               !.snap = Snapshot]]
    /\ UNCHANGED <<internalPlugins, externalPlugins, exts, ret, sigs,
                   accepted, seen>>
    /\ UNCHANGED <<mgrVars, procVars>>
    /\ UNCHANGED <<childVars, envVars>>

RI_Body(g) ==
    /\ pc[g] = "ri_body"
    /\ LET t == fr[g].type
           res == RegisterInternalResult(internalPlugins, t, fr[g].impl)
       IN /\ internalPlugins' = res.int
          /\ ret' = [ret EXCEPT ![g] = [err |-> res.err, val |-> NoProvider]]
          /\ accepted' = IF res.err = Nil
                         THEN [accepted EXCEPT
                                 ![t] = Append(@, InternalProvider(fr[g].impl))]
                         ELSE accepted
    /\ pc' = [pc EXCEPT ![g] = "ri_ret"]
    /\ UNCHANGED <<externalPlugins, mu, exts, fr, sigs, seen>>
    /\ UNCHANGED <<mgrVars, procVars>>
    /\ UNCHANGED <<childVars, envVars>>

RI_Unlock(g) ==
    /\ pc[g] = "ri_ret"
    /\ Unlock(g)
    /\ EndCall(g)
    /\ UNCHANGED <<internalPlugins, externalPlugins, exts, sigs, accepted, seen>>
    /\ UNCHANGED <<mgrVars, procVars>>
    /\ UNCHANGED <<childVars, envVars>>

\* -------------------------------------------------- AddExternalPlugin
\* a duplicate check that looks in the internal map only
CheckErrorsInternalOnly(int, ext, types) ==
    {ErrInternalRegistered(t) : t \in {u \in types : int[u] # NoImpl}}

\* the errors the duplicate check can return: the loop ranges over the
\* Types map in any order and returns at the first claimed type it meets
CheckErrors(int, ext, types) ==
    {ErrInternalRegistered(t) : t \in {u \in types : int[u] # NoImpl}}
    \cup
    {ErrExternalRegistered(t) :
        t \in {u \in types : int[u] = NoImpl /\ ext[u] # NoExt}}

\* what the started process and the host did during the handshake: the first
\* stdout line, whether the client was built, how the readiness wait ended
Handshake(line, client, ready) == [line |-> line, client |-> client, ready |-> ready]
NoHandshake == NoFrame.handshake
HandshakeOK == Handshake("location", TRUE, "ready")

HandshakeRuns ==
    {Handshake(l, FALSE, "none") : l \in {"eof", "readerr", "blank"}}
    \cup {Handshake("location", FALSE, "none")}
    \cup {Handshake("location", TRUE, r) : r \in {"ready", "timeout", "cancelled"}}

\* a WaitForPlugin that drops the error of the readiness wait
WaitForPluginIgnoringReadiness(h) ==
    IF h.line = "eof" THEN "plugin did not output connection location"
    ELSE IF h.line = "readerr" THEN "failed to read plugin location"
    ELSE IF h.line = "blank" THEN "plugin output empty location"
    ELSE IF ~h.client THEN "failed to create HTTP client"
    ELSE "nil"

\* WaitForPlugin: the error it returns for a run of the handshake
WaitForPlugin(h) ==
    IF h.line = "eof" THEN "plugin did not output connection location"
    ELSE IF h.line = "readerr" THEN "failed to read plugin location"
    ELSE IF h.line = "blank" THEN "plugin output empty location"
    ELSE IF ~h.client THEN "failed to create HTTP client"
    ELSE IF h.ready # "ready" THEN "plugin failed to become ready"
    ELSE "nil"

\* the ExternalPlugin allocated once the handshake succeeded, with the facts
\* of its process: whether Cmd.Start succeeded and how the handshake ran
NewExternalPlugin(plugin, started, h) ==
    [Plugin |-> plugin, started |-> started, handshake |-> h, added |-> FALSE]

AE_Lock(g, plugin) ==
    /\ pc[g] = "idle"
    /\ \/ Len(exts) < MaxExternal
       \/ CheckErrors(internalPlugins, externalPlugins, plugin.Types) # {}
    /\ Lock(g)
    /\ pc' = [pc EXCEPT ![g] = "ae_check"]
    /\ fr' = [fr EXCEPT ![g] = [NoFrame EXCEPT !.plugin = plugin,
                                               !.procs = Spawned,
                                               !.snap = Snapshot]]
    /\ UNCHANGED <<internalPlugins, externalPlugins, exts, ret, sigs,
                   accepted, seen>>
    /\ UNCHANGED <<mgrVars, procVars>>
    /\ UNCHANGED <<childVars, envVars>>

\* a duplicate check that runs only after Cmd.Start
AE_CheckAfterStart(g) ==
    /\ pc[g] = "ae_check"
    /\ LET errs == CheckErrors(internalPlugins, externalPlugins,
                               fr[g].plugin.Types)
       IN IF errs # {}
          THEN /\ \E e \in errs :
                     ret' = [ret EXCEPT ![g] = [err |-> e, val |-> NoProvider]]
               /\ pc' = [pc EXCEPT ![g] = "ae_ret"]
               /\ fr' = [fr EXCEPT ![g].started = "started"]
               /\ orphans' = [orphans EXCEPT !.running = @ + 1]
          ELSE /\ pc' = [pc EXCEPT ![g] = "ae_start"]
               /\ UNCHANGED <<ret, fr, orphans>>
    /\ UNCHANGED <<internalPlugins, externalPlugins, mu, exts, sigs,
                   accepted, seen, mgrVars, baseCtx, killed>>
    /\ UNCHANGED <<childVars, envVars>>

AE_Check(g) ==
    /\ pc[g] = "ae_check"
    /\ LET errs == CheckErrors(internalPlugins, externalPlugins,
                               fr[g].plugin.Types)
       IN IF errs # {}
          THEN /\ \E e \in errs :
                     ret' = [ret EXCEPT ![g] = [err |-> e, val |-> NoProvider]]
               /\ pc' = [pc EXCEPT ![g] = "ae_ret"]
          ELSE /\ pc' = [pc EXCEPT ![g] = "ae_start"]
               /\ UNCHANGED ret
    /\ UNCHANGED <<internalPlugins, externalPlugins, mu, exts, fr, sigs,
                   accepted, seen>>
    /\ UNCHANGED <<mgrVars, procVars>>
    /\ UNCHANGED <<childVars, envVars>>

\* a long-running command made with the context of the RegisterPlugins call
PluginContextOfCall == callCtx

\* the context addPlugin is given, with which it makes the long-running
\* command: pm.baseCtx
PluginContext == baseCtx

\* Cmd.Start of a command made by exec.CommandContext: it fails when the
\* context is done already, and may fail for other reasons when it is not
StartOutcomes(ctx) == IF ctx = Live THEN BOOLEAN ELSE {FALSE}

\* the handshake runs possible under the Registry's context: the readiness
\* wait ends with the context's error exactly when the context is done
HandshakeRunsUnder(ctx) ==
    IF ctx = Live THEN {h \in HandshakeRuns : h.ready # "cancelled"}
                  ELSE {h \in HandshakeRuns : h.ready \notin {"ready", "timeout"}}

\* a Start whose error is not looked at: the handshake wait follows either way
AE_StartUnchecked(g) ==
    /\ pc[g] = "ae_start"
    /\ \E ok \in StartOutcomes(PluginContext) :
          /\ fr' = [fr EXCEPT ![g].started = IF ok THEN "started" ELSE "failed"]
          /\ pc' = [pc EXCEPT ![g] = "ae_wait"]
          /\ UNCHANGED ret
    /\ UNCHANGED <<internalPlugins, externalPlugins, mu, exts, sigs,
                   accepted, seen>>
    /\ UNCHANGED <<mgrVars, procVars>>
    /\ UNCHANGED <<childVars, envVars>>

AE_Start(g) ==
    /\ pc[g] = "ae_start"
    /\ \E ok \in StartOutcomes(PluginContext) :
          /\ fr' = [fr EXCEPT ![g].started = IF ok THEN "started" ELSE "failed"]
          /\ IF ok
             THEN /\ pc' = [pc EXCEPT ![g] = "ae_wait"]
                  /\ UNCHANGED ret
             ELSE /\ pc' = [pc EXCEPT ![g] = "ae_ret"]
                  /\ ret' = [ret EXCEPT ![g] = [err |-> ErrStart(fr[g].plugin.ID),
                                                val |-> NoProvider]]
    /\ UNCHANGED <<internalPlugins, externalPlugins, mu, exts, sigs,
                   accepted, seen>>
    /\ UNCHANGED <<mgrVars, procVars>>
    /\ UNCHANGED <<childVars, envVars>>

\* a handshake wait that kills the process it gave up on
AE_WaitKillingOnFailure(g) ==
    /\ pc[g] = "ae_wait"
    /\ \E h \in HandshakeRunsUnder(baseCtx) :
          IF WaitForPlugin(h) # "nil"
          THEN /\ orphans.running + orphans.killed < MaxOrphans
               /\ orphans' = [orphans EXCEPT !.killed = @ + 1]
               /\ pc' = [pc EXCEPT ![g] = "ae_ret"]
               /\ ret' = [ret EXCEPT ![g] = [err |-> ErrWait(fr[g].plugin.ID),
                                             val |-> NoProvider]]
               /\ fr' = [fr EXCEPT ![g].handshake = h]
               /\ UNCHANGED exts
          ELSE /\ pc' = [pc EXCEPT ![g] = "ae_publish"]
               /\ exts' = Append(exts, NewExternalPlugin(fr[g].plugin,
                                                         fr[g].started, h))
               /\ fr' = [fr EXCEPT ![g].handshake = h,
                                   ![g].ext = Len(exts) + 1,
                                   ![g].todo = fr[g].plugin.Types]
               /\ UNCHANGED <<ret, orphans>>
    /\ UNCHANGED <<internalPlugins, externalPlugins, mu, sigs, accepted, seen>>
    /\ UNCHANGED <<mgrVars, baseCtx, killed>>
    /\ UNCHANGED <<childVars, envVars>>

AE_Wait(g) ==
    /\ pc[g] = "ae_wait"
    /\ \E h \in HandshakeRunsUnder(baseCtx) :
          IF WaitForPlugin(h) # "nil"
          THEN /\ orphans.running + orphans.killed < MaxOrphans
               /\ orphans' = [orphans EXCEPT !.running = @ + 1]
               /\ pc' = [pc EXCEPT ![g] = "ae_ret"]
               /\ ret' = [ret EXCEPT ![g] = [err |-> ErrWait(fr[g].plugin.ID),
                                             val |-> NoProvider]]
               /\ fr' = [fr EXCEPT ![g].handshake = h]
               /\ UNCHANGED exts
          ELSE /\ pc' = [pc EXCEPT ![g] = "ae_publish"]
               /\ exts' = Append(exts, NewExternalPlugin(fr[g].plugin,
                                                         fr[g].started, h))
               /\ fr' = [fr EXCEPT ![g].handshake = h,
                                   ![g].ext = Len(exts) + 1,
                                   ![g].todo = fr[g].plugin.Types]
               /\ UNCHANGED <<ret, orphans>>
    /\ UNCHANGED <<internalPlugins, externalPlugins, mu, sigs, accepted, seen>>
    /\ UNCHANGED <<mgrVars, baseCtx, killed>>
    /\ UNCHANGED <<childVars, envVars>>

\* one iteration of the publication loop, or its exit and the return of nil
AE_Publish(g) ==
    /\ pc[g] = "ae_publish"
    /\ IF fr[g].todo = {}
       THEN /\ pc' = [pc EXCEPT ![g] = "ae_ret"]
            /\ ret' = [ret EXCEPT ![g] = [err |-> Nil, val |-> NoProvider]]
            /\ exts' = [exts EXCEPT ![fr[g].ext].added = TRUE]
            /\ UNCHANGED <<externalPlugins, fr, accepted>>
       ELSE /\ \E t \in fr[g].todo :
                  /\ externalPlugins' = [externalPlugins EXCEPT ![t] = fr[g].ext]
                  /\ fr' = [fr EXCEPT ![g].todo = @ \ {t}]
                  /\ accepted' = [accepted EXCEPT
                                    ![t] = Append(@, ExternalProvider(fr[g].ext))]
            /\ UNCHANGED <<pc, ret, exts>>
    /\ UNCHANGED <<internalPlugins, mu, sigs, seen>>
    /\ UNCHANGED <<mgrVars, procVars>>
    /\ UNCHANGED <<childVars, envVars>>

AE_Unlock(g) ==
    /\ pc[g] = "ae_ret"
    /\ Unlock(g)
    /\ EndCall(g)
    /\ ReturnToManager(g)
    /\ UNCHANGED <<internalPlugins, externalPlugins, exts, sigs, accepted, seen>>
    /\ UNCHANGED procVars
    /\ UNCHANGED <<childVars, envVars>>

\* ---------------------------------------------------------- GetPlugin
\* a GetPlugin that looks in the external map first
GetPluginExternalFirst(int, ext, pluginType) ==
    IF ext[pluginType] # NoExt
    THEN [err |-> Nil, val |-> ExternalProvider(ext[pluginType])]
    ELSE IF int[pluginType] # NoImpl
         THEN [err |-> Nil, val |-> InternalProvider(int[pluginType])]
         ELSE [err |-> ErrNotFound(pluginType), val |-> NoProvider]

\* a GetPlugin that looks in the internal map only
GetPluginInternalOnly(int, ext, pluginType) ==
    IF int[pluginType] # NoImpl
    THEN [err |-> Nil, val |-> InternalProvider(int[pluginType])]
    ELSE [err |-> ErrNotFound(pluginType), val |-> NoProvider]

\* the body of GetPlugin: internal map first, then the external map
GetPluginResult(int, ext, pluginType) ==
    IF int[pluginType] # NoImpl
    THEN [err |-> Nil, val |-> InternalProvider(int[pluginType])]
    ELSE IF ext[pluginType] # NoExt
         THEN [err |-> Nil, val |-> ExternalProvider(ext[pluginType])]
         ELSE [err |-> ErrNotFound(pluginType), val |-> NoProvider]

GP_RLock(g, t) ==
    /\ pc[g] = "idle"
    /\ RLock(g)
    /\ pc' = [pc EXCEPT ![g] = "gp_body"]
    /\ fr' = [fr EXCEPT ![g] = [NoFrame EXCEPT !.type = t, !.snap = Snapshot]]
    /\ UNCHANGED <<internalPlugins, externalPlugins, exts, ret, sigs,
                   accepted, seen>>
    /\ UNCHANGED <<mgrVars, procVars>>
    /\ UNCHANGED <<childVars, envVars>>

GP_Body(g) ==
    /\ pc[g] = "gp_body"
    /\ LET t == fr[g].type
           res == GetPluginResult(internalPlugins, externalPlugins, t)
       IN /\ ret' = [ret EXCEPT ![g] = res]
          /\ seen' = IF res.err = Nil /\ seen[t] = NoProvider
                     THEN [seen EXCEPT ![t] = res.val]
                     ELSE seen
    /\ pc' = [pc EXCEPT ![g] = "gp_ret"]
    /\ UNCHANGED <<internalPlugins, externalPlugins, mu, exts, fr, sigs,
                   accepted>>
    /\ UNCHANGED <<mgrVars, procVars>>
    /\ UNCHANGED <<childVars, envVars>>

GP_RUnlock(g) ==
    /\ pc[g] = "gp_ret"
    /\ RUnlock(g)
    /\ EndCall(g)
    /\ UNCHANGED <<internalPlugins, externalPlugins, exts, sigs, accepted, seen>>
    /\ UNCHANGED <<mgrVars, procVars>>
    /\ UNCHANGED <<childVars, envVars>>

\* ----------------------------------------------------------- Shutdown
\* the keys of the externalPlugins map
ExternalKeys(ext) == {t \in TypeNames : ext[t] # NoExt}

\* processedPlugins[externalPlugin.Plugin.ID]
AlreadyProcessed(processed, id) == id \in processed

\* a loop that gives up at the first interrupt that fails
RemainingUntilFailure(todo, t, ok) == IF ok THEN todo \ {t} ELSE {}

\* the keys the loop has still to visit after the iteration for key t, whose
\* Signal succeeded or not: the error is appended and the loop goes on
RemainingAfter(todo, t, ok) == todo \ {t}

SD_Lock(g) ==
    /\ pc[g] = "idle"
    /\ Lock(g)
    /\ pc' = [pc EXCEPT ![g] = "sd_loop"]
    /\ fr' = [fr EXCEPT ![g] = [NoFrame EXCEPT
                                  !.todo = ExternalKeys(externalPlugins),
                                  !.snap = Snapshot]]
    /\ sigs' = [c \in 1..Len(exts) |-> 0]
    /\ UNCHANGED <<internalPlugins, externalPlugins, exts, ret, accepted, seen>>
    /\ UNCHANGED <<mgrVars, procVars>>
    /\ UNCHANGED <<childVars, envVars>>

\* one iteration of the loop over externalPlugins, or its exit and the return
SD_Loop(g) ==
    /\ pc[g] = "sd_loop"
    /\ IF fr[g].todo = {}
       THEN /\ pc' = [pc EXCEPT ![g] = "sd_ret"]
            /\ ret' = [ret EXCEPT ![g] =
                         [err |-> IF fr[g].errs # {} THEN ErrJoin(fr[g].errs)
                                                     ELSE Nil,
                          val |-> NoProvider]]
            /\ UNCHANGED <<fr, sigs>>
       ELSE /\ \E t \in fr[g].todo :
                 LET e == externalPlugins[t]
                     id == exts[e].Plugin.ID
                 IN IF AlreadyProcessed(fr[g].processed, id)
                    THEN /\ fr' = [fr EXCEPT ![g].todo = @ \ {t}]
                         /\ UNCHANGED sigs
                    ELSE \E ok \in BOOLEAN :
                            /\ sigs' = [sigs EXCEPT ![e] = @ + 1]
                            /\ fr' = [fr EXCEPT
                                        ![g].todo = RemainingAfter(@, t, ok),
                                        ![g].processed = @ \cup {id},
                                        ![g].errs = IF ok THEN @ ELSE @ \cup {id},
                                        ![g].failed = IF ok THEN @ ELSE @ \cup {e}]
            /\ UNCHANGED <<pc, ret>>
    /\ UNCHANGED <<internalPlugins, externalPlugins, mu, exts, accepted, seen>>
    /\ UNCHANGED <<mgrVars, procVars>>

SD_Iter(g) ==
    /\ SD_Loop(g)
    /\ UNCHANGED <<childVars, envVars>>

\* the same iteration with its interrupt entered in the history
SD_IterRecorded(g) ==
    /\ SD_Loop(g)
    /\ LET now == {e \in 1..Len(sigs) : sigs'[e] > sigs[e]}
       IN signalled' = [once |-> signalled.once \cup now,
                        again |-> signalled.again
                                  \cup (now \cap signalled.once)]
    /\ UNCHANGED <<childVars, callCtx, disc, cfg, lk>>

SD_Unlock(g) ==
    /\ pc[g] = "sd_ret"
    /\ Unlock(g)
    /\ EndCall(g)
    /\ sigs' = <<>>
    /\ ReturnToManager(g)
    /\ UNCHANGED <<internalPlugins, externalPlugins, exts, accepted, seen>>
    /\ UNCHANGED procVars
    /\ UNCHANGED <<childVars, envVars>>

\* ------------------------------------------------------ PluginManager
\* what filepath.Walk hands to the callback for one file or directory
Entry(path, isDir, err) == [path |-> path, isDir |-> isDir, err |-> err]

\* filepath.Ext over the file names of the model: the suffix from the last dot
Ext(name) == IF name = "notes.md" THEN ".md" ELSE ""

\* the directories RegisterPlugins is pointed at, as the walk visits them
MissingDir == <<Entry(<<"dir">>, FALSE, "not exist")>>

UnreadableDir == <<Entry(<<"dir">>, TRUE, "nil"),
                   Entry(<<"dir", "a">>, TRUE, "nil"),
                   Entry(<<"dir", "a", "p">>, FALSE, "nil"),
                   Entry(<<"dir", "b">>, TRUE, "permission denied")>>

DocsDir == <<Entry(<<"dir">>, TRUE, "nil"),
             Entry(<<"dir", "a">>, TRUE, "nil"),
             Entry(<<"dir", "notes.md">>, FALSE, "nil")>>

PluginsDir == <<Entry(<<"dir">>, TRUE, "nil"),
                Entry(<<"dir", "a">>, TRUE, "nil"),
                Entry(<<"dir", "a", "p">>, FALSE, "nil"),
                Entry(<<"dir", "a", "q">>, FALSE, "nil"),
                Entry(<<"dir", "b">>, TRUE, "nil"),
                Entry(<<"dir", "b", "p">>, FALSE, "nil"),
                Entry(<<"dir", "notes.md">>, FALSE, "nil")>>

Dirs == {MissingDir, UnreadableDir, DocsDir, PluginsDir}

\* PluginFilter values, each the set of base names it accepts; the default
\* accepts every name
AcceptAll == {"p", "q"}
Filters == {AcceptAll, {"q"}, {}}

\* a filter that is never consulted
AcceptsAnything(filter, id) == TRUE

\* filter(id)
Accepts(filter, id) == id \in filter

\* the callback of filepath.Walk applied to the entries from the i-th on, with
\* the plugins appended so far
RECURSIVE WalkFrom(_, _, _, _)
WalkFrom(entries, i, filter, plugins) ==
    IF i > Len(entries) THEN [err |-> "nil", plugins |-> plugins]
    ELSE LET e == entries[i]
         IN IF e.err = "not exist"
            THEN [err |-> "no plugins found", plugins |-> <<>>]
            ELSE IF e.err # "nil"
            THEN [err |-> e.err, plugins |-> <<>>]
            ELSE IF e.isDir
            THEN WalkFrom(entries, i + 1, filter, plugins)
            ELSE IF Ext(Base(e.path)) # ""
            THEN WalkFrom(entries, i + 1, filter, plugins)
            ELSE IF ~Accepts(filter, Base(e.path))
            THEN WalkFrom(entries, i + 1, filter, plugins)
            ELSE WalkFrom(entries, i + 1, filter, Append(plugins, e.path))

\* fetchPlugins: the paths of the candidates in walk order, or the error
fetchPlugins(dir, filter) == WalkFrom(dir, 1, filter, <<>>)

\* what the host finds when it probes for Unix-socket support
ProbeOutcomes == {"mkdtemp fails", "listen fails", "close fails", "ok"}

\* determineConnectionType: the connection type, or an error
determineConnectionType(o) ==
    IF o = "mkdtemp fails" THEN [type |-> "none", err |-> TRUE]
    ELSE IF o = "listen fails" THEN [type |-> "tcp", err |-> FALSE]
    ELSE IF o = "close fails" THEN [type |-> "none", err |-> TRUE]
    ELSE [type |-> "unix", err |-> FALSE]

\* a run of "<path> capabilities" followed by the preparation of the
\* long-running command: whether the query exited with status 0, whether its
\* output parses as a capabilities document, the types the document declares,
\* and whether the configuration and the two pipes could be set up
CapsRun(ok, parses, types, setup) ==
    [ok |-> ok, parses |-> parses, types |-> types, setup |-> setup]

\* the sets of types the capabilities documents of the candidates declare
DeclaredTypes == {{"A"}, {"B"}}

CapsRuns ==
    {CapsRun(ok, FALSE, {}, TRUE) : ok \in BOOLEAN}
    \cup {CapsRun(ok, TRUE, ts, su) :
             ok \in BOOLEAN, ts \in DeclaredTypes, su \in BOOLEAN}

\* the runs possible under the context of the call: exec.CommandContext
\* fails a query whose context is done
CapsRunsUnder(ctx) ==
    IF ctx = Live THEN CapsRuns ELSE {run \in CapsRuns : ~run.ok}

\* a loop that hands the output to addPlugin whatever cmd.Run returned
CapsUsableIgnoringExit(c) == TRUE

\* cmd.Run returned nil, so the loop goes on to addPlugin
CapsUsable(c) == c.ok

\* addPlugin up to its last line: the error it returns before it reaches
\* Registry.AddExternalPlugin, or Nil
addPluginPrepare(id, c) ==
    IF ~c.parses THEN ErrUnmarshal(id)
    ELSE IF ~c.setup THEN Err("failed to set up plugin command", id, {})
    ELSE Nil

\* a pm.mu that is never waited for
CanLockManagerAlways(m) == TRUE

\* pm.mu.Lock
CanLockManager(m) == m = NoThread

registryVars == <<internalPlugins, externalPlugins, mu, exts, pc, fr, ret,
                  sigs, accepted, seen>>

RP_Lock(g, dir, filter) ==
    /\ mpc[g] = "idle"
    /\ pc[g] = "idle"
    /\ CanLockManager(pmu)
    /\ pmu' = g
    /\ mpc' = [mpc EXCEPT ![g] = "rp_probe"]
    /\ mfr' = [mfr EXCEPT ![g] = [NoMFrame EXCEPT !.dir = dir,
                                                  !.filter = filter,
                                                  !.procs = Spawned,
                                                  !.snap = Snapshot]]
    /\ UNCHANGED <<registryVars, procVars>>
    /\ UNCHANGED <<childVars, envVars>>

RP_Probe(g) ==
    /\ mpc[g] = "rp_probe"
    /\ \E o \in ProbeOutcomes :
          LET t == determineConnectionType(o)
          IN IF t.err
             THEN /\ mpc' = [mpc EXCEPT ![g] = "rp_ret"]
                  /\ mfr' = [mfr EXCEPT ![g].err = ErrConnectionType]
             ELSE /\ mpc' = [mpc EXCEPT ![g] = "rp_fetch"]
                  /\ UNCHANGED mfr
    /\ UNCHANGED <<registryVars, procVars, pmu>>
    /\ UNCHANGED <<childVars, envVars>>

\* a length test that never finds the batch empty
IsEmptyBatchNever(plugins) == FALSE

\* len(plugins) == 0
IsEmptyBatch(plugins) == Len(plugins) = 0

RP_Fetch(g) ==
    /\ mpc[g] = "rp_fetch"
    /\ LET res == fetchPlugins(mfr[g].dir, mfr[g].filter)
       IN IF res.err # "nil"
          THEN /\ mpc' = [mpc EXCEPT ![g] = "rp_ret"]
               /\ mfr' = [mfr EXCEPT ![g].err = ErrFetch(res.err)]
          ELSE IF IsEmptyBatch(res.plugins)
          THEN /\ mpc' = [mpc EXCEPT ![g] = "rp_ret"]
               /\ mfr' = [mfr EXCEPT ![g].err = ErrNoPluginsFound]
          ELSE /\ mpc' = [mpc EXCEPT ![g] = "rp_loop"]
               /\ mfr' = [mfr EXCEPT
                            ![g].queue = res.plugins,
                            ![g].found = {res.plugins[i] :
                                             i \in 1..Len(res.plugins)}]
    /\ UNCHANGED <<registryVars, procVars, pmu>>
    /\ UNCHANGED <<childVars, envVars>>

\* the head of the loop over the candidates: the capabilities query of the
\* next candidate and addPlugin up to its call of the Registry, or the end of
\* the loop and the return of nil
RP_Capabilities(g) ==
    /\ mpc[g] = "rp_loop"
    /\ IF mfr[g].queue = <<>>
       THEN /\ mpc' = [mpc EXCEPT ![g] = "rp_ret"]
            /\ mfr' = [mfr EXCEPT ![g].err = Nil]
       ELSE \E run \in CapsRunsUnder(callCtx) :
              LET c == Head(mfr[g].queue)
                  bad == ~run.ok \/ ~run.parses
                  e == addPluginPrepare(Base(c), run)
                  out == AbsorbedError(e)
                  m == [mfr[g] EXCEPT
                          !.queue = Tail(@),
                          !.queried = @ \cup {c},
                          !.badcaps = IF bad THEN @ \cup {c} ELSE @]
              IN IF ~CapsUsable(run)
                 THEN /\ mfr' = [mfr EXCEPT ![g] = m]
                      /\ UNCHANGED mpc
                 ELSE IF e # Nil
                 THEN /\ mfr' = [mfr EXCEPT ![g] = [m EXCEPT !.err = out]]
                      /\ mpc' = [mpc EXCEPT ![g] = IF out = Nil THEN "rp_loop"
                                                                ELSE "rp_ret"]
                 ELSE /\ mfr' = [mfr EXCEPT ![g] =
                                   [m EXCEPT !.cur = c,
                                             !.plugin = PluginOf(c, run.types)]]
                      /\ mpc' = [mpc EXCEPT ![g] = "rp_call"]
    /\ UNCHANGED <<registryVars, procVars, pmu>>
    /\ UNCHANGED <<childVars, envVars>>

\* the last line of addPlugin: Registry.AddExternalPlugin with the command
\* that exec.CommandContext made and nobody started
RP_AddPlugin(g) ==
    /\ mpc[g] = "rp_call"
    /\ \/ AE_Lock(g, mfr[g].plugin)
       \/ AE_Check(g)
       \/ AE_Start(g)
       \/ AE_Wait(g)
       \/ AE_Publish(g)
       \/ AE_Unlock(g)

\* the deferred pm.mu.Unlock of either method
ManagerReturn(g) ==
    /\ pmu' = NoThread
    /\ mpc' = [mpc EXCEPT ![g] = "idle"]
    /\ mfr' = [mfr EXCEPT ![g] = NoMFrame]
    /\ UNCHANGED <<registryVars, procVars>>
    /\ UNCHANGED <<childVars, envVars>>

RP_Unlock(g) ==
    /\ mpc[g] = "rp_ret"
    /\ ManagerReturn(g)

MS_Lock(g) ==
    /\ mpc[g] = "idle"
    /\ pc[g] = "idle"
    /\ CanLockManager(pmu)
    /\ pmu' = g
    /\ mpc' = [mpc EXCEPT ![g] = "ms_call"]
    /\ mfr' = [mfr EXCEPT ![g] = [NoMFrame EXCEPT !.procs = Spawned,
                                                  !.snap = Snapshot]]
    /\ UNCHANGED <<registryVars, procVars>>
    /\ UNCHANGED <<childVars, envVars>>

\* return pm.Registry.Shutdown(ctx)
MS_Registry(g) ==
    /\ mpc[g] = "ms_call"
    /\ \/ SD_Lock(g)
       \/ SD_Iter(g)
       \/ SD_Unlock(g)

MS_Unlock(g) ==
    /\ mpc[g] = "ms_ret"
    /\ ManagerReturn(g)

\* --------------------------------------------- context and processes
\* the owner of the base context cancels it
CancelBaseCtx ==
    /\ baseCtx = Live
    /\ baseCtx' = Cancelled
    /\ UNCHANGED <<registryVars, mgrVars, orphans, killed>>
    /\ UNCHANGED <<childVars, envVars>>

\* the goroutine Cmd.Start leaves behind for a command of
\* exec.CommandContext: once the context is done it calls Cmd.Cancel, which
\* addPlugin set to Process.Kill
KillOnCancel ==
    /\ PluginContext = Cancelled
    /\ \/ \E e \in (1..Len(exts)) \ killed :
             /\ killed' = killed \cup {e}
             /\ UNCHANGED orphans
       \/ /\ orphans.running > 0
          /\ orphans' = [running |-> orphans.running - 1,
                         killed |-> orphans.killed + 1]
          /\ UNCHANGED killed
    /\ UNCHANGED <<registryVars, mgrVars, baseCtx>>
    /\ UNCHANGED <<childVars, envVars>>

\* ------------------------------------------------------ specification
RegisterInternal(g) ==
    \/ \E t \in TypeNames, i \in Impls : RI_Lock(g, t, i)
    \/ RI_Body(g)
    \/ RI_Unlock(g)

AddExternalPlugin(g) ==
    \/ \E p \in Plugins : AE_Lock(g, p)
    \/ AE_Check(g)
    \/ AE_Start(g)
    \/ AE_Wait(g)
    \/ AE_Publish(g)
    \/ AE_Unlock(g)

GetPlugin(g) ==
    \/ \E t \in TypeNames : GP_RLock(g, t)
    \/ GP_Body(g)
    \/ GP_RUnlock(g)

Shutdown(g) ==
    \/ SD_Lock(g)
    \/ SD_Iter(g)
    \/ SD_Unlock(g)

Next ==
    \E g \in Threads :
        \/ RegisterInternal(g)
        \/ AddExternalPlugin(g)
        \/ GetPlugin(g)
        \/ Shutdown(g)

Spec == Init /\ [][Next]_vars

ShutdownsNext ==
    \E g \in Threads :
        \/ AddExternalPlugin(g)
        \/ SD_Lock(g)
        \/ SD_IterRecorded(g)
        \/ SD_Unlock(g)

\* goroutines that add external plugins and shut down, any number of times,
\* with every interrupt entered in the history
ShutdownsSpec == Init /\ [][ShutdownsNext]_vars

\* the methods of the PluginManager
RegisterPlugins(g) ==
    \/ \E dir \in Dirs, filter \in Filters : RP_Lock(g, dir, filter)
    \/ RP_Probe(g)
    \/ RP_Fetch(g)
    \/ RP_Capabilities(g)
    \/ RP_AddPlugin(g)
    \/ RP_Unlock(g)

ManagerShutdown(g) ==
    \/ MS_Lock(g)
    \/ MS_Registry(g)
    \/ MS_Unlock(g)

\* the in-process implementation the host of the manager registers
HostImpl == "i1"

RegisterInternalPlugin(g) ==
    /\ mpc[g] = "idle"
    /\ \/ \E t \in TypeNames : RI_Lock(g, t, HostImpl)
       \/ RI_Body(g)
       \/ RI_Unlock(g)

ManagerNext ==
    \E g \in Threads :
        \/ RegisterPlugins(g)
        \/ ManagerShutdown(g)
        \/ RegisterInternalPlugin(g)

\* a host whose goroutines register and shut down through one PluginManager
\* under a base context that stays live
ManagerSpec == Init /\ [][ManagerNext]_vars

\* a GetPlugin whose lookup waits for pm.mu with the read lock held
ManagerGetPluginUnderLock(g) ==
    /\ mpc[g] = "idle"
    /\ \/ \E t \in TypeNames : GP_RLock(g, t)
       \/ CanLockManager(pmu) /\ GP_Body(g)
       \/ GP_RUnlock(g)

\* PluginManager.GetPlugin: straight to the Registry, without pm.mu
ManagerGetPlugin(g) ==
    /\ mpc[g] = "idle"
    /\ GetPlugin(g)

\* the four methods, RegisterPlugins over a directory with one candidate
ConcurrentStep(g) ==
    \/ RP_Lock(g, PluginsDir, {"q"})
    \/ RP_Probe(g)
    \/ RP_Fetch(g)
    \/ RP_Capabilities(g)
    \/ RP_AddPlugin(g)
    \/ RP_Unlock(g)
    \/ ManagerShutdown(g)
    \/ RegisterInternalPlugin(g)
    \/ ManagerGetPlugin(g)

ConcurrentNext == \E g \in Threads : ConcurrentStep(g)

\* a host whose goroutines call all four methods of one PluginManager
ConcurrentSpec == Init /\ [][ConcurrentNext]_vars

\* the same host under Go's locks, which starve nobody: a sync.Mutex hands
\* over to a waiter that waited long, a sync.RWMutex admits no new reader
\* while a writer waits; so a goroutine whose step is enabled again and
\* again takes it
ConcurrentFairSpec ==
    ConcurrentSpec /\ \A g \in Threads : SF_vars(ConcurrentStep(g))

\* the goroutine of a host that works alone
Main == "g1"

CancelNext ==
    \/ RegisterPlugins(Main)
    \/ ManagerShutdown(Main)
    \/ RegisterInternalPlugin(Main)
    \/ CancelBaseCtx
    \/ KillOnCancel

\* a host with one goroutine, whose base context may be cancelled at any time
CancelSpec == Init /\ [][CancelNext]_vars

\* the caller cancels the context it passes to RegisterPlugins
CancelCallCtx ==
    /\ callCtx = Live
    /\ callCtx' = Cancelled
    /\ UNCHANGED <<registryVars, mgrVars, procVars>>
    /\ UNCHANGED <<childVars, disc, cfg, lk, signalled>>

CallCtxNext ==
    \/ RegisterPlugins(Main)
    \/ ManagerShutdown(Main)
    \/ CancelCallCtx
    \/ CancelBaseCtx
    \/ KillOnCancel

\* a host with one goroutine, whose base context and whose call context may
\* each be cancelled at any time
CallCtxSpec == Init /\ [][CallCtxNext]_vars

\* --------------------------------------------------------- cleanPath
\* everything the host side holds
hostVars == <<registryVars, mgrVars, procVars>>

\* length of the paths the directory walk hands to the Manager
MaxPathLen == 3

\* the characters of those paths: a separator, a letter, and three of the
\* characters cleanPath is to remove
PathChars == {"/", "p", ";", "$", "'"}

\* the cutset of cleanPath
Cutset == {",", ";", ":", "'", "\"", "|", "&", "*", "!", "@", "#", "$"}

\* plugin.Path values: strings as sequences of characters
RawPaths == UNION {[1..n -> PathChars] : n \in 0..MaxPathLen}

\* strings.TrimLeft(s, cutset)
RECURSIVE TrimLeft(_, _)
TrimLeft(s, cutset) ==
    IF s # <<>> /\ Head(s) \in cutset THEN TrimLeft(Tail(s), cutset) ELSE s

\* strings.TrimRight(s, cutset)
RECURSIVE TrimRight(_, _)
TrimRight(s, cutset) ==
    IF s # <<>> /\ s[Len(s)] \in cutset
    THEN TrimRight(SubSeq(s, 1, Len(s) - 1), cutset) ELSE s

\* strings.Trim(s, cutset): the leading and the trailing characters of the
\* cutset go, the ones in between stay
Trim(s, cutset) == TrimRight(TrimLeft(s, cutset), cutset)

\* cleanPath(path)
cleanPath(path) == Trim(path, Cutset)

\* exec.CommandContext(ctx, cleanPath(plugin.Path), "capabilities")
CapabilitiesCommand(path) ==
    /\ ~cmd.built
    /\ cmd' = [Path |-> path, Arg |-> cleanPath(path), built |-> TRUE,
               args |-> "capabilities"]
    /\ UNCHANGED <<envVars, hostVars, stdout, hs, wr, rt>>

\* exec.CommandContext(ctx, cleanPath(plugin.Path), "--config", serialized)
SpawnCommand(path) ==
    /\ ~cmd.built
    /\ cmd' = [Path |-> path, Arg |-> cleanPath(path), built |-> TRUE,
               args |-> "--config"]
    /\ UNCHANGED <<envVars, hostVars, stdout, hs, wr, rt>>

CommandNext ==
    \/ \E path \in RawPaths : CapabilitiesCommand(path)
    \/ \E path \in RawPaths : SpawnCommand(path)

\* the Manager building the command line of a candidate
CommandSpec == Init /\ [][CommandNext]_vars

\* --------------------------------------------- External Runtime (sdk)
\* request handlers running at once in one plugin process
Handlers == {"h1", "h2"}

\* StartWork calls in the life of one plugin process
MaxWork == 2

\* lines a plugin process writes to its stdout
MaxLines == 3

\* ticks of the clock the plugin may stay idle, when an idle timeout is set
IdleTimeout == 1

\* ticks of the clock the teardown waits for the in-flight work
GracePeriod == 1

\* Config.IdleTimeout: unset, or the timeout
IdleTimeouts == {0, IdleTimeout}

ConnectionTypes == {"tcp", "unix"}

\* the location line of a plugin process
LocationLine(connType) == IF connType = "tcp" THEN <<"a">>
                                              ELSE <<"u", ":", "a">>

\* NewPlugin: the state machine is in Starting, nothing is bound, the
\* in-flight counter is zero
NewPlugin(connType, idleTimeout) ==
    [state |-> "Starting", connType |-> connType, idleTimeout |-> idleTimeout,
     listener |-> "none", accepting |-> FALSE, files |-> {},
     wrote |-> 0, workerCounter |-> 0, starts |-> 0, stops |-> 0,
     underflow |-> FALSE, triggers |-> {},
     req |-> [h \in Handlers |-> "none"],
     idle |-> 0, grace |-> 0,
     began |-> "none",
     teardowns |-> 0, steps |-> <<>>, exit |-> "none"]

\* a counter update in which the increment of a concurrent handler is lost
AddLosingUpdates(counter, delta) == IF delta > 0 THEN 1 ELSE counter + delta

\* atomic.Int64.Add
Add(counter, delta) == counter + delta

\* a StopWork that never looks at the counter it leaves behind
UnderflowsNever(counter) == FALSE

\* more stops than starts: the signed counter went below zero
Underflows(counter) == counter < 0

\* StartWork: one more unit in flight, and the idle time starts over
StartWork(r) == [r EXCEPT !.workerCounter = Add(@, 1), !.starts = @ + 1,
                          !.idle = 0]

\* StopWork: one unit less in flight, and the violation made visible when
\* there was none
StopWork(r) ==
    LET counter == Add(r.workerCounter, -1)
    IN [r EXCEPT !.workerCounter = counter, !.stops = @ + 1, !.idle = 0,
                 !.underflow = @ \/ Underflows(counter)]

RT_NewPlugin(connType, idleTimeout) ==
    /\ rt.state = "none"
    /\ rt' = NewPlugin(connType, idleTimeout)
    /\ UNCHANGED <<envVars, hostVars, cmd, stdout, hs, wr>>

\* Start, first part: the listener is bound; for a Unix socket the lock
\* file and the socket file are created
RT_Bind ==
    /\ rt.state = "Starting"
    /\ rt.listener = "none"
    /\ rt' = [rt EXCEPT !.listener = "bound",
                        !.files = IF rt.connType = "unix"
                                  THEN {"lock", "socket"} ELSE {}]
    /\ UNCHANGED <<envVars, hostVars, cmd, stdout, hs, wr>>

\* Start, second part: the location goes to stdout as one line
RT_WriteLocation ==
    /\ rt.state = "Starting"
    /\ rt.listener = "bound"
    /\ rt.wrote = 0
    /\ stdout' = Append(stdout, LocationLine(rt.connType))
    /\ rt' = [rt EXCEPT !.wrote = 1]
    /\ UNCHANGED <<envVars, hostVars, cmd, hs, wr>>

\* Start, third part: the server accepts connections
RT_Serve ==
    /\ rt.state = "Starting"
    /\ rt.wrote = 1
    /\ rt' = [rt EXCEPT !.state = "Ready", !.accepting = TRUE]
    /\ UNCHANGED <<envVars, hostVars, cmd, stdout, hs, wr>>

\* the process is running
Alive(r) == r.state \in {"Starting", "Ready", "Draining"}

\* a server that takes requests for as long as the process lives
AdmitsWhileAlive(r) == TRUE

\* the server takes new requests
Admits(r) == r.accepting

\* a request for handler h arrives: a server that accepts runs the handler
\* inside StartWork and StopWork, a draining one answers with a refusal
RT_Request(h) ==
    /\ rt.state \in {"Ready", "Draining"}
    /\ rt.req[h] # "running"
    /\ IF Admits(rt)
       THEN /\ rt.starts < MaxWork
            /\ rt' = StartWork([rt EXCEPT !.req[h] = "running"])
       ELSE rt' = [rt EXCEPT !.req[h] = "rejected"]
    /\ UNCHANGED <<envVars, hostVars, cmd, stdout, hs, wr>>

\* the handler returns, with whatever outcome
RT_HandlerReturns(h) ==
    /\ Alive(rt)
    /\ rt.req[h] = "running"
    /\ rt.stops <= rt.starts
    /\ rt' = StopWork([rt EXCEPT !.req[h] = "none"])
    /\ UNCHANGED <<envVars, hostVars, cmd, stdout, hs, wr>>

\* the plugin's own code calls StartWork
RT_StartWork ==
    /\ Alive(rt)
    /\ rt.starts < MaxWork
    /\ rt' = StartWork(rt)
    /\ UNCHANGED <<envVars, hostVars, cmd, stdout, hs, wr>>

\* the plugin's own code calls StopWork, at most once too often
RT_StopWork ==
    /\ Alive(rt)
    /\ rt.stops <= rt.starts
    /\ rt' = StopWork(rt)
    /\ UNCHANGED <<envVars, hostVars, cmd, stdout, hs, wr>>

\* anything else the process prints to stdout after the location
RT_Log ==
    /\ Alive(rt)
    /\ rt.wrote = 1
    /\ Len(stdout) < MaxLines
    /\ stdout' = Append(stdout, <<"l">>)
    /\ UNCHANGED <<envVars, hostVars, cmd, hs, wr, rt>>

\* one tick of the clock: more time since the last StartWork or StopWork
\* for a server that is ready, more time spent draining for one that drains
RT_Tick ==
    /\ rt.state \in {"Ready", "Draining"}
    /\ IF rt.state = "Ready"
       THEN /\ rt.idle < IdleTimeout
            /\ rt' = [rt EXCEPT !.idle = @ + 1]
       ELSE /\ rt.grace < GracePeriod
            /\ rt' = [rt EXCEPT !.grace = @ + 1]
    /\ UNCHANGED <<envVars, hostVars, cmd, stdout, hs, wr>>

\* a teardown that starts over at every trigger
BeginTeardownAgain(r, trigger) ==
    [r EXCEPT !.state = "Draining", !.accepting = FALSE,
              !.triggers = @ \cup {trigger},
              !.began = trigger,
              !.teardowns = @ + 1,
              !.steps = <<"stop accepting">>]

\* the teardown begins, unless it has begun: the server stops accepting
BeginTeardown(r, trigger) ==
    IF r.state \in {"Starting", "Ready"}
    THEN [r EXCEPT !.state = "Draining", !.accepting = FALSE,
                   !.triggers = @ \cup {trigger},
                   !.began = trigger,
                   !.teardowns = @ + 1,
                   !.steps = <<"stop accepting">>]
    ELSE [r EXCEPT !.triggers = @ \cup {trigger}]

\* an idle check that looks at the clock only
IdleExpiredIgnoringWork(r) == r.idle >= r.idleTimeout

\* the idle check: nothing in flight and idle for the timeout
IdleExpired(r) == r.workerCounter = 0 /\ r.idle >= r.idleTimeout

\* the periodic idle check, which runs only when a timeout is configured
RT_IdleCheck ==
    /\ rt.state = "Ready"
    /\ rt.idleTimeout > 0
    /\ IdleExpired(rt)
    /\ rt' = BeginTeardown(rt, "idle")
    /\ UNCHANGED <<envVars, hostVars, cmd, stdout, hs, wr>>

\* SIGINT or SIGTERM arrives
RT_Signal ==
    /\ Alive(rt)
    /\ "signal" \notin rt.triggers
    /\ rt' = BeginTeardown(rt, "signal")
    /\ UNCHANGED <<envVars, hostVars, cmd, stdout, hs, wr>>

\* POST /shutdown arrives
RT_ShutdownEndpoint ==
    /\ rt.state \in {"Ready", "Draining"}
    /\ "shutdown" \notin rt.triggers
    /\ rt' = BeginTeardown(rt, "shutdown")
    /\ UNCHANGED <<envVars, hostVars, cmd, stdout, hs, wr>>

\* the teardown sequence, one step at a time
LastStep(r) == IF r.steps = <<>> THEN "none" ELSE r.steps[Len(r.steps)]

\* the wait is over: no work in flight
WaitOver(r) == r.workerCounter = 0

\* the wait for the in-flight work ends cleanly
RT_Drained ==
    /\ rt.state = "Draining"
    /\ LastStep(rt) = "stop accepting"
    /\ WaitOver(rt)
    /\ rt' = [rt EXCEPT !.steps = Append(@, "drained"), !.exit = "clean"]
    /\ UNCHANGED <<envVars, hostVars, cmd, stdout, hs, wr>>

\* a grace period that never runs out
GraceExpiredNever(r) == FALSE

\* the grace period ran out with work in flight
GraceExpired(r) == r.grace >= GracePeriod /\ r.workerCounter # 0

RT_GraceExpired ==
    /\ rt.state = "Draining"
    /\ LastStep(rt) = "stop accepting"
    /\ GraceExpired(rt)
    /\ rt' = [rt EXCEPT !.steps = Append(@, "grace expired"), !.exit = "forced"]
    /\ UNCHANGED <<envVars, hostVars, cmd, stdout, hs, wr>>

RT_CloseListener ==
    /\ rt.state = "Draining"
    /\ LastStep(rt) \in {"drained", "grace expired"}
    /\ rt' = [rt EXCEPT !.listener = IF @ = "bound" THEN "closed" ELSE @,
                        !.steps = Append(@, "close listener")]
    /\ UNCHANGED <<envVars, hostVars, cmd, stdout, hs, wr>>

RT_RemoveFiles ==
    /\ rt.state = "Draining"
    /\ LastStep(rt) = "close listener"
    /\ rt' = [rt EXCEPT !.files = {}, !.steps = Append(@, "remove files")]
    /\ UNCHANGED <<envVars, hostVars, cmd, stdout, hs, wr>>

RT_Exit ==
    /\ rt.state = "Draining"
    /\ LastStep(rt) = "remove files"
    /\ rt' = [rt EXCEPT !.state = "Terminated", !.steps = Append(@, "exit")]
    /\ UNCHANGED <<envVars, hostVars, cmd, stdout, hs, wr>>

\* ------------------------------------------ WaitForPlugin, step by step
\* a line is a sequence of characters; what a child process may print first
FirstLines == {<<>>, <<" ">>, <<"a">>, <<" ", "a", " ">>, <<"%">>}

\* the connection types a Config can carry
ConfigTypes == {"tcp", "unix", "pipe"}

WhiteSpace == {" ", "\t", "\n", "\r"}

\* a reader that takes the line as it is
KeepSpace(s) == s

\* strings.TrimSpace
TrimSpace(s) == Trim(s, WhiteSpace)

\* a reader that keeps the line printed last
LastLine(out) == out[Len(out)]

\* the one Scan of the reader: the line printed first
FirstLine(out) == out[1]

\* url.Parse rejects a percent sign that does not start an escape of two
\* hexadecimal digits
ParseOK(location) ==
    \A i \in 1..Len(location) :
        location[i] = "%" =>
            /\ i + 2 <= Len(location)
            /\ location[i + 1] = "a"
            /\ location[i + 2] = "a"

\* createHTTPClient: whether it returns a client
createHTTPClient(connType, location) ==
    IF connType = "tcp" THEN TRUE
    ELSE IF connType = "unix" THEN ParseOK(location)
    ELSE FALSE

\* the interval of the ticker and the ceiling of the wait, in milliseconds
PollInterval == 100
ReadyTimeout == 30000

\* the clock of the model stops this long after the wait began
MaxClock == 30200

\* what WaitForPlugin returns
Returned(client, location, err) ==
    [pc |-> "done", client |-> client, location |-> location, err |-> err]

\* the ticker and the timer are created, the loop is about to select
StartedWait == [pc |-> "select", now |-> 0, tick |-> FALSE, fired |-> FALSE,
                cancelledFirst |-> FALSE, lastPoll |-> "none",
                result |-> "none"]

\* the host calls WaitForPlugin on a started command
WP_Call(connType) ==
    /\ hs.pc = "idle"
    /\ hs' = [pc |-> "scan", connType |-> connType]
    /\ UNCHANGED <<envVars, hostVars, cmd, stdout, wr, rt>>

\* scanner.Scan returns: a read error, the first line, or the end of the
\* stream; WaitForPlugin runs on to its return or to the readiness wait
WP_Scan ==
    /\ hs.pc = "scan"
    /\ \/ /\ hs' = Returned(FALSE, <<>>, "failed to read plugin location")
          /\ UNCHANGED wr
       \/ /\ stdout # <<>>
          /\ LET location == TrimSpace(FirstLine(stdout))
             IN IF location = <<>>
                THEN /\ hs' = Returned(FALSE, <<>>, "plugin output empty location")
                     /\ UNCHANGED wr
                ELSE IF ~createHTTPClient(hs.connType, location)
                THEN /\ hs' = Returned(FALSE, <<>>, "failed to create HTTP client")
                     /\ UNCHANGED wr
                ELSE /\ hs' = [pc |-> "wait", connType |-> hs.connType,
                               location |-> location]
                     /\ wr' = StartedWait
       \/ /\ stdout = <<>>
          /\ rt.state = "Terminated"
          /\ hs' = Returned(FALSE, <<>>,
                            "plugin did not output connection location")
          /\ UNCHANGED wr
    /\ UNCHANGED <<envVars, hostVars, cmd, stdout, rt>>

\* ------------------------------------- waitForPluginReady, step by step
\* a select in which the timer is ready from the start
SelectReadyEarlyTimeout(w, ctx) ==
    (IF ctx = Cancelled THEN {"done"} ELSE {})
    \cup {"timeout"}
    \cup (IF w.tick THEN {"tick"} ELSE {})

\* the cases of the select that are ready; Go picks any one of them
SelectReady(w, ctx) ==
    (IF ctx = Cancelled THEN {"done"} ELSE {})
    \cup (IF w.fired THEN {"timeout"} ELSE {})
    \cup (IF w.tick THEN {"tick"} ELSE {})

\* one interval goes by, while the loop waits in the select or in Call: the
\* ticker leaves a tick in its channel, which holds one; at the ceiling the
\* timer fires
WR_Time ==
    /\ hs.pc = "wait"
    /\ wr.pc \in {"select", "call"}
    /\ wr.now < MaxClock
    /\ wr' = [wr EXCEPT !.now = @ + PollInterval,
                        !.tick = TRUE,
                        !.fired = @ \/ wr.now + PollInterval >= ReadyTimeout,
                        !.cancelledFirst =
                            IF ~wr.fired /\ wr.now + PollInterval >= ReadyTimeout
                            THEN baseCtx = Cancelled ELSE @]
    /\ UNCHANGED <<envVars, hostVars, cmd, stdout, hs, rt>>

\* the select takes one ready case
WR_Select ==
    /\ hs.pc = "wait"
    /\ wr.pc = "select"
    /\ \E c \in SelectReady(wr, baseCtx) :
          wr' = IF c = "done"
                THEN [wr EXCEPT !.pc = "done", !.result = "cancelled"]
                ELSE IF c = "timeout"
                THEN [wr EXCEPT !.pc = "done", !.result = "timeout"]
                ELSE [wr EXCEPT !.pc = "call", !.tick = FALSE]
    /\ UNCHANGED <<envVars, hostVars, cmd, stdout, hs, rt>>

\* how Call can end: a request made under a context that is done fails
PollOutcomes(ctx) == IF ctx = Live THEN BOOLEAN ELSE {FALSE}

\* Call of GET /healthz returns, with an error or without
WR_Poll ==
    /\ hs.pc = "wait"
    /\ wr.pc = "call"
    /\ \E ok \in PollOutcomes(baseCtx) :
          wr' = IF ok
                THEN [wr EXCEPT !.pc = "done", !.result = "ready",
                                !.lastPoll = "ok"]
                ELSE [wr EXCEPT !.pc = "select", !.lastPoll = "failed"]
    /\ UNCHANGED <<envVars, hostVars, cmd, stdout, hs, rt>>

\* waitForPluginReady returned, and WaitForPlugin returns
WP_Return ==
    /\ hs.pc = "wait"
    /\ wr.pc = "done"
    /\ hs' = IF wr.result = "ready"
             THEN Returned(TRUE, hs.location, "nil")
             ELSE Returned(FALSE, <<>>, "plugin failed to become ready")
    /\ UNCHANGED <<envVars, hostVars, cmd, stdout, wr, rt>>

\* the started process, seen from the pipe: it prints a first line
ChildPrints(line) ==
    /\ rt.state = "none"
    /\ stdout = <<>>
    /\ stdout' = <<line>>
    /\ UNCHANGED <<envVars, hostVars, cmd, hs, wr, rt>>

\* the started process exits, which closes its end of the pipe
ChildExits ==
    /\ rt.state = "none"
    /\ rt' = [state |-> "Terminated"]
    /\ UNCHANGED <<envVars, hostVars, cmd, stdout, hs, wr>>

HandshakeNext ==
    \/ \E line \in FirstLines : ChildPrints(line)
    \/ ChildExits
    \/ \E connType \in ConfigTypes : WP_Call(connType)
    \/ WP_Scan
    \/ WR_Time
    \/ WR_Select
    \/ WR_Poll
    \/ WP_Return
    \/ CancelBaseCtx

HandshakeSpec == Init /\ [][HandshakeNext]_vars

\* ---------------------------------------------- the plugin process alone
RuntimeNext ==
    \/ \E connType \in ConnectionTypes, idleTimeout \in IdleTimeouts :
          RT_NewPlugin(connType, idleTimeout)
    \/ RT_Bind
    \/ RT_WriteLocation
    \/ RT_Serve
    \/ \E h \in Handlers : RT_Request(h)
    \/ \E h \in Handlers : RT_HandlerReturns(h)
    \/ RT_StartWork
    \/ RT_StopWork
    \/ RT_Tick
    \/ RT_IdleCheck
    \/ RT_Signal
    \/ RT_ShutdownEndpoint
    \/ RT_Drained
    \/ RT_GraceExpired
    \/ RT_CloseListener
    \/ RT_RemoveFiles
    \/ RT_Exit

RuntimeSpec == Init /\ [][RuntimeNext]_vars

\* the same with its scheduling: the clock goes on, the periodic idle check
\* runs again and again, and the teardown, once begun, runs step after step
RuntimeFairSpec ==
    /\ RuntimeSpec
    /\ WF_vars(RT_Tick)
    /\ WF_vars(RT_IdleCheck)
    /\ WF_vars(RT_Drained)
    /\ WF_vars(RT_GraceExpired)
    /\ WF_vars(RT_CloseListener)
    /\ WF_vars(RT_RemoveFiles)
    /\ WF_vars(RT_Exit)

\* ------------------------- the plugin process and the reader of its stdout
LocationNext ==
    \/ \E connType \in ConnectionTypes, idleTimeout \in IdleTimeouts :
          RT_NewPlugin(connType, idleTimeout)
    \/ RT_Bind
    \/ RT_WriteLocation
    \/ RT_Serve
    \/ \E h \in Handlers : RT_Request(h)
    \/ RT_Log
    \/ \E connType \in ConfigTypes : WP_Call(connType)
    \/ WP_Scan

LocationSpec == Init /\ [][LocationNext]_vars

\* ------------------------------------- the lock file of a Unix socket
\* plugin processes started with one and the same ID, one after another
MaxInstances == 3

\* the process whose ID a lock file records is running
IsProcessRunning(w, pid) ==
    /\ pid \in 1..Len(w.proc)
    /\ w.proc[pid] \in {"starting", "locked", "owner"}

\* a liveness check that finds every recorded owner dead
IsStaleAlways(w) == w.lock # 0

\* the lock file is there and the process it records is gone
IsStale(w) == w.lock # 0 /\ ~IsProcessRunning(w, w.lock)

\* a process with the ID starts; its process ID is the next one
LK_Spawn ==
    /\ Len(lk.proc) < MaxInstances
    /\ lk' = [lk EXCEPT !.proc = Append(@, "starting")]
    /\ UNCHANGED <<hostVars, childVars, callCtx, disc, cfg, signalled>>

\* the process takes the lock file in one step: it creates the file with its
\* process ID when there is none or when the one there is stale, and gives up
\* when the recorded owner is running
LK_Acquire(pid) ==
    /\ pid \in 1..Len(lk.proc)
    /\ lk.proc[pid] = "starting"
    /\ lk' = IF lk.lock = 0 \/ IsStale(lk)
             THEN [lk EXCEPT !.lock = pid, !.proc[pid] = "locked"]
             ELSE [lk EXCEPT !.proc[pid] = "refused"]
    /\ UNCHANGED <<hostVars, childVars, callCtx, disc, cfg, signalled>>

\* the holder of the lock removes a socket file left behind and listens
LK_Bind(pid) ==
    /\ pid \in 1..Len(lk.proc)
    /\ lk.proc[pid] = "locked"
    /\ lk' = [lk EXCEPT !.listener = pid, !.proc[pid] = "owner"]
    /\ UNCHANGED <<hostVars, childVars, callCtx, disc, cfg, signalled>>

\* the process dies without its teardown: the kernel closes the listener,
\* the lock file stays
LK_Crash(pid) ==
    /\ pid \in 1..Len(lk.proc)
    /\ lk.proc[pid] \in {"locked", "owner"}
    /\ lk' = [lk EXCEPT !.listener = IF @ = pid THEN 0 ELSE @,
                        !.proc[pid] = "crashed"]
    /\ UNCHANGED <<hostVars, childVars, callCtx, disc, cfg, signalled>>

\* the teardown of the owner: listener closed, socket and lock file removed
LK_Teardown(pid) ==
    /\ pid \in 1..Len(lk.proc)
    /\ lk.proc[pid] = "owner"
    /\ lk' = [lk EXCEPT !.listener = 0, !.lock = 0, !.proc[pid] = "exited"]
    /\ UNCHANGED <<hostVars, childVars, callCtx, disc, cfg, signalled>>

LockNext ==
    \/ LK_Spawn
    \/ \E pid \in 1..MaxInstances : LK_Acquire(pid)
    \/ \E pid \in 1..MaxInstances : LK_Bind(pid)
    \/ \E pid \in 1..MaxInstances : LK_Crash(pid)
    \/ \E pid \in 1..MaxInstances : LK_Teardown(pid)

LockSpec == Init /\ [][LockNext]_vars

\* ----------------------------------------------- Config and its JSON
\* strings as byte sequences; 0xFF is a byte that is not valid UTF-8, as a
\* file name on Linux may hold
Strings == {<<>>, <<"p">>, <<"0xFF">>}

\* the absent value of a pointer or slice field, and of a JSON member
Absent == [present |-> FALSE]
Present(v) == [present |-> TRUE, v |-> v]

\* []byte values, and ConfigData values
ByteSlices == {Absent, Present(<<>>), Present(<<1>>)}
ConfigDatas == [Type : {<<>>, <<"p">>}, Data : ByteSlices]

\* time.Duration values behind the IdleTimeout pointer, in hours
Durations == {0, 1}

\* every Config the type admits, within the sets above
Configs ==
    [ID : Strings,
     Type : {<<"t", "c", "p">>, <<"u", "n", "i", "x">>},
     IdleTimeout : {Absent} \cup {Present(d) : d \in Durations},
     ConfigTypes : {Absent, Present(<<>>)}
                   \cup {Present(<<d>>) : d \in ConfigDatas}]

\* json.Marshal of a string: invalid UTF-8 becomes the replacement rune
ToValidUTF8(str) ==
    [i \in 1..Len(str) |-> IF str[i] = "0xFF" THEN "U+FFFD" ELSE str[i]]

\* base64.StdEncoding of the byte slices above, and back
Base64(b) == IF b = <<>> THEN "" ELSE "AQ=="
Base64Decode(t) == IF t = "" THEN <<>> ELSE <<1>>

\* json.Marshal of a ConfigData: a nil Data is null
MarshalConfigData(d) ==
    [type |-> ToValidUTF8(d.Type),
     data |-> IF d.Data = Absent THEN "null" ELSE Base64(d.Data.v)]

\* the encoding of a Config whose list had no omitempty: an empty list is
\* written as an empty array
MarshalWithoutOmitEmpty(c) ==
    [id |-> ToValidUTF8(c.ID),
     type |-> ToValidUTF8(c.Type),
     idleTimeout |-> c.IdleTimeout,
     configTypes |->
         IF c.ConfigTypes = Absent THEN Absent
         ELSE Present([i \in 1..Len(c.ConfigTypes.v) |->
                          MarshalConfigData(c.ConfigTypes.v[i])])]

\* json.Marshal of a Config, as the tree of the document: omitempty leaves
\* out a nil pointer and a slice of length zero, nil or not
Marshal(c) ==
    [id |-> ToValidUTF8(c.ID),
     type |-> ToValidUTF8(c.Type),
     idleTimeout |-> c.IdleTimeout,
     configTypes |->
         IF c.ConfigTypes = Absent \/ Len(c.ConfigTypes.v) = 0 THEN Absent
         ELSE Present([i \in 1..Len(c.ConfigTypes.v) |->
                          MarshalConfigData(c.ConfigTypes.v[i])])]

UnmarshalConfigData(j) ==
    [Type |-> j.type,
     Data |-> IF j.data = "null" THEN Absent
              ELSE Present(Base64Decode(j.data))]

\* json.Unmarshal into a zero Config: a member that is not there leaves the
\* field nil
Unmarshal(j) ==
    [ID |-> j.id,
     Type |-> j.type,
     IdleTimeout |-> j.idleTimeout,
     ConfigTypes |->
         IF j.configTypes = Absent THEN Absent
         ELSE Present([i \in 1..Len(j.configTypes.v) |->
                          UnmarshalConfigData(j.configTypes.v[i])])]

\* addPlugin serializes the Config of a plugin for its --config argument
CF_Marshal(c) ==
    /\ cfg = NoBatch
    /\ cfg' = [assigned |-> TRUE, config |-> c, json |-> Marshal(c),
               parsed |-> Absent]
    /\ UNCHANGED <<hostVars, childVars, callCtx, disc, lk, signalled>>

\* the plugin process parses the argument
CF_Unmarshal ==
    /\ cfg.assigned
    /\ cfg.parsed = Absent
    /\ cfg' = [cfg EXCEPT !.parsed = Unmarshal(cfg.json)]
    /\ UNCHANGED <<hostVars, childVars, callCtx, disc, lk, signalled>>

ConfigNext ==
    \/ \E c \in Configs : CF_Marshal(c)
    \/ CF_Unmarshal

ConfigSpec == Init /\ [][ConfigNext]_vars

\* ------------------------------------------------- what the walk visits
\* the type bits of os.FileMode as Lstat reports them; filepath.Walk does not
\* follow a symbolic link
Modes == {"dir", "regular", "symlink", "pipe", "device"}

\* FileMode.IsDir
IsDir(mode) == mode = "dir"

\* the os.FileInfo the callback is handed for an entry of the given mode
FileInfo(path, mode) ==
    [path |-> path, isDir |-> IsDir(mode), err |-> "nil", mode |-> mode]

FileNames == {"notes.md", "p", "q"}

\* directory trees in the lexical order of the walk: dir, dir/a, one entry
\* inside dir/a and one entry beside it
Trees ==
    {<<FileInfo(<<"dir">>, "dir"),
       FileInfo(<<"dir", "a">>, "dir"),
       FileInfo(<<"dir", "a", n1>>, m1),
       FileInfo(<<"dir", n2>>, m2)>> :
        n1 \in FileNames, m1 \in Modes, n2 \in FileNames, m2 \in Modes}

\* fetchPlugins over one tree with one filter
DS_Walk(tree, filter) ==
    /\ ~disc.walked
    /\ disc' = [walked |-> TRUE, tree |-> tree, filter |-> filter,
                result |-> fetchPlugins(tree, filter)]
    /\ UNCHANGED <<hostVars, childVars, callCtx, cfg, lk, signalled>>

DiscoveryNext == \E tree \in Trees, filter \in Filters : DS_Walk(tree, filter)

DiscoverySpec == Init /\ [][DiscoveryNext]_vars

\* ------------------------------------------- the Config of each candidate
\* time.Hour, the idle timeout of a call without WithIdleTimeout, in hours
DefaultIdleTimeout == 1

\* the options of a call: WithIdleTimeout given or not, WithConfigData given
\* (with a list that may be empty) or not
IdleOptions == {Absent} \cup {Present(d) : d \in Durations}
DataOptions ==
    {Absent, Present(<<>>),
     Present(<<[Type |-> <<"p">>, Data |-> Present(<<1>>)]>>)}

\* defaultOpts after the option functions ran
RegistrationOptions(idle, data) ==
    [IdleTimeout |-> IF idle = Absent THEN DefaultIdleTimeout ELSE idle.v,
     ConfigData |-> data]

\* a ConnectionType and a one-letter file name as strings
TypeString(t) ==
    IF t = "tcp" THEN <<"t", "c", "p">> ELSE <<"u", "n", "i", "x">>
NameString(n) == <<n>>

\* conf as RegisterPlugins builds it before the probe
NewConfig(opts) ==
    [ID |-> <<>>, Type |-> <<>>,
     IdleTimeout |-> Present(opts.IdleTimeout),
     ConfigTypes |-> opts.ConfigData]

\* a loop that hands every candidate the shared conf as it is
SharedConfig(conf, id) == conf

\* conf.ID = plugin.ID; plugin.Config = *conf
ConfigFor(conf, id) == [conf EXCEPT !.ID = NameString(id)]

BT_Call(idle, data, dir, filter) ==
    /\ cfg = NoBatch
    /\ cfg' = [assigned |-> TRUE, pc |-> "probe",
               opts |-> RegistrationOptions(idle, data),
               dir |-> dir, filter |-> filter,
               conf |-> NewConfig(RegistrationOptions(idle, data)),
               probe |-> <<>>, queue |-> <<>>,
               cur |-> Absent, spawned |-> <<>>]
    /\ UNCHANGED <<hostVars, childVars, callCtx, disc, lk, signalled>>

\* determineConnectionType, once per call
BT_Probe ==
    /\ cfg # NoBatch
    /\ cfg.pc = "probe"
    /\ \E o \in ProbeOutcomes :
          LET t == determineConnectionType(o)
          IN cfg' = IF t.err
                    THEN [cfg EXCEPT !.pc = "done", !.probe = Append(@, o)]
                    ELSE [cfg EXCEPT !.pc = "fetch", !.probe = Append(@, o),
                                     !.conf.Type = TypeString(t.type)]
    /\ UNCHANGED <<hostVars, childVars, callCtx, disc, lk, signalled>>

BT_Fetch ==
    /\ cfg # NoBatch
    /\ cfg.pc = "fetch"
    /\ LET res == fetchPlugins(cfg.dir, cfg.filter)
       IN cfg' = IF res.err # "nil" \/ IsEmptyBatch(res.plugins)
                 THEN [cfg EXCEPT !.pc = "done"]
                 ELSE [cfg EXCEPT !.pc = "loop", !.queue = res.plugins]
    /\ UNCHANGED <<hostVars, childVars, callCtx, disc, lk, signalled>>

\* the head of the loop body: the candidate gets its Config
BT_Assign ==
    /\ cfg # NoBatch
    /\ cfg.pc = "loop"
    /\ cfg' = IF cfg.queue = <<>>
              THEN [cfg EXCEPT !.pc = "done"]
              ELSE LET c == Head(cfg.queue)
                       conf == ConfigFor(cfg.conf, Base(c))
                   IN [cfg EXCEPT !.pc = "caps",
                                  !.conf = conf,
                                  !.cur = Present([Path |-> c,
                                                   Config |-> conf])]
    /\ UNCHANGED <<hostVars, childVars, callCtx, disc, lk, signalled>>

\* the capabilities query: a candidate whose query fails is skipped
BT_Capabilities ==
    /\ cfg # NoBatch
    /\ cfg.pc = "caps"
    /\ \E ok \in BOOLEAN :
          cfg' = IF ok THEN [cfg EXCEPT !.pc = "spawn"]
                 ELSE [cfg EXCEPT !.pc = "loop", !.queue = Tail(@),
                                  !.cur = Absent]
    /\ UNCHANGED <<hostVars, childVars, callCtx, disc, lk, signalled>>

\* addPlugin: the Config of the candidate goes on the command line, and the
\* process parses it
BT_Spawn ==
    /\ cfg # NoBatch
    /\ cfg.pc = "spawn"
    /\ LET serialized == Marshal(cfg.cur.v.Config)
       IN cfg' = [cfg EXCEPT
                    !.pc = "loop", !.queue = Tail(@), !.cur = Absent,
                    !.spawned = Append(@, [Path |-> cfg.cur.v.Path,
                                           Config |-> cfg.cur.v.Config,
                                           arg |-> serialized,
                                           received |-> Unmarshal(serialized)])]
    /\ UNCHANGED <<hostVars, childVars, callCtx, disc, lk, signalled>>

BatchNext ==
    \/ \E idle \in IdleOptions, data \in DataOptions,
          dir \in Dirs, filter \in Filters : BT_Call(idle, data, dir, filter)
    \/ BT_Probe
    \/ BT_Fetch
    \/ BT_Assign
    \/ BT_Capabilities
    \/ BT_Spawn

BatchSpec == Init /\ [][BatchNext]_vars

\* ================================================================ claims
ConflictKinds == {"internal plugin already registered",
                  "external plugin already registered"}

\* the types under which ExternalPlugin e is in the external map
PublishedTypes(e) == {t \in TypeNames : externalPlugins[t] = e}

\* the provider GetPlugin would return for t now
Resolve(t) == GetPluginResult(internalPlugins, externalPlugins, t).val

\* C1: for every type, at most one registration ever returned nil, in any
\* combination of internal and external, and the provider of that first
\* registration is the one the type resolves to.
C1_SecondRegistrationRejected ==
    \A t \in TypeNames :
        /\ Len(accepted[t]) <= 1
        /\ Len(accepted[t]) = 1 => Resolve(t) = accepted[t][1]

\* C2: no type has an internal and an external entry at once, and every
\* GetPlugin(T) that succeeds returns the provider the first successful
\* GetPlugin(T) returned.
C2_OneProviderForLifetime ==
    /\ \A t \in TypeNames :
          ~(internalPlugins[t] # NoImpl /\ externalPlugins[t] # NoExt)
    /\ \A g \in Threads :
          (pc[g] = "gp_ret" /\ ret[g].err = Nil) => ret[g].val = seen[fr[g].type]

\* C3: a RegisterInternal or AddExternalPlugin about to return an
\* already-registered error leaves both maps as they were when the call took
\* the lock, also when only some of the plugin's types were claimed.
C3_RejectionLeavesRegistryUnchanged ==
    \A g \in Threads :
        (pc[g] \in {"ri_ret", "ae_ret"} /\ ret[g].err.kind \in ConflictKinds)
            => Snapshot = fr[g].snap

C3_Witness ==
    \E g \in Threads :
        /\ pc[g] = "ae_ret"
        /\ ret[g].err.kind \in ConflictKinds
        /\ \E t \in fr[g].plugin.Types :
              internalPlugins[t] = NoImpl /\ externalPlugins[t] = NoExt
        /\ \E t \in fr[g].plugin.Types : externalPlugins[t] # NoExt

\* C4: a GetPlugin(T) about to return gives the internal provider whenever T
\* has one (also when T has an external one too), and with only an external
\* entry it gives the wrapper of the plugin that declared T.
C4_InternalTakesPrecedence ==
    \A g \in Threads :
        pc[g] = "gp_ret" =>
            LET t == fr[g].type
            IN /\ internalPlugins[t] # NoImpl =>
                     /\ ret[g].err = Nil
                     /\ ret[g].val = InternalProvider(internalPlugins[t])
               /\ (internalPlugins[t] = NoImpl /\ externalPlugins[t] # NoExt) =>
                     /\ ret[g].err = Nil
                     /\ ret[g].val = ExternalProvider(externalPlugins[t])
                     /\ t \in exts[ret[g].val.ext].Plugin.Types

C4_Witness ==
    \E g \in Threads :
        /\ pc[g] = "gp_ret"
        /\ internalPlugins[fr[g].type] # NoImpl
        /\ externalPlugins[fr[g].type] # NoExt
        /\ ret[g].val.kind = "internal"

\* C5: a GetPlugin(T) about to return gives the not-found error exactly when
\* neither map has T, that error names T, no other error is possible, and
\* both maps are as they were when the call took the read lock.
C5_NotFoundExactlyWhenUnregistered ==
    \A g \in Threads :
        pc[g] = "gp_ret" =>
            LET t == fr[g].type
            IN /\ (ret[g].err.kind = "no plugin found") <=>
                     (internalPlugins[t] = NoImpl /\ externalPlugins[t] = NoExt)
               /\ ret[g].err # Nil => ret[g].err = ErrNotFound(t)
               /\ Snapshot = fr[g].snap

C5_Witness ==
    \E g \in Threads :
        /\ pc[g] = "gp_ret"
        /\ ret[g].err = ErrNotFound(fr[g].type)
        /\ \E u \in TypeNames : externalPlugins[u] # NoExt

C7_AddExternalIsOneCriticalSection ==
    \A g \in Threads :
        pc[g] \in {"ae_check", "ae_start", "ae_wait", "ae_publish"} =>
            LET published == IF pc[g] = "ae_publish"
                             THEN fr[g].plugin.Types \ fr[g].todo
                             ELSE {}
            IN /\ mu = [writer |-> g, readers |-> {}]
               /\ \A o \in Threads \ {g} : pc[o] = "idle"
               /\ internalPlugins = fr[g].snap.int
               /\ \A t \in TypeNames :
                     externalPlugins[t] = IF t \in published THEN fr[g].ext
                                          ELSE fr[g].snap.ext[t]
               /\ pc[g] # "ae_check" =>
                     \A t \in fr[g].plugin.Types \ published :
                         internalPlugins[t] = NoImpl /\ externalPlugins[t] = NoExt

C7_Witness ==
    \E g \in Threads :
        /\ pc[g] = "ae_publish"
        /\ fr[g].todo # {}
        /\ fr[g].todo # fr[g].plugin.Types

\* C8: every entry of the external map is a plugin whose process started and
\* whose handshake read a location, built the client and saw the plugin
\* ready; an AddExternalPlugin whose start or handshake failed is about to
\* return an error with both maps as they were.
C8_RegisteredOnlyAfterHandshake ==
    /\ \A t \in TypeNames :
          externalPlugins[t] # NoExt =>
              /\ exts[externalPlugins[t]].started = "started"
              /\ exts[externalPlugins[t]].handshake = HandshakeOK
    /\ \A g \in Threads :
          (/\ pc[g] = "ae_ret"
           /\ \/ fr[g].started = "failed"
              \/ fr[g].handshake \notin {NoHandshake, HandshakeOK})
            => /\ ret[g].err.kind \in {"failed to start plugin",
                                      "failed to wait for plugin to start"}
               /\ ret[g].err.name = fr[g].plugin.ID
               /\ Snapshot = fr[g].snap
               /\ \A e \in 1..Len(exts) : PublishedTypes(e) # {} => exts[e].added

C8_Witness ==
    \E g \in Threads :
        /\ pc[g] = "ae_ret"
        /\ fr[g].handshake.ready = "timeout"
        /\ Cardinality(fr[g].plugin.Types) = 2
        /\ ret[g].err = ErrWait(fr[g].plugin.ID)

\* C9: when the loop of a Shutdown has ended, every ExternalPlugin that is in
\* the external map under at least one type has been sent exactly one
\* interrupt by this Shutdown.
C9_RegisteredPluginSignalledExactlyOnce ==
    \A g \in Threads :
        pc[g] = "sd_ret" =>
            \A e \in 1..Len(exts) : PublishedTypes(e) # {} => sigs[e] = 1

\* C10: when the loop of a Shutdown has ended, every plugin whose
\* AddExternalPlugin returned nil has been sent an interrupt by this Shutdown,
\* whatever types it declared and whatever its ID.
C10_EveryAddedPluginSignalled ==
    \A g \in Threads :
        pc[g] = "sd_ret" =>
            \A e \in 1..Len(exts) : exts[e].added => sigs[e] >= 1

\* C11: when the loop of a Shutdown has ended, no type resolves to an
\* external plugin that this Shutdown has sent its interrupt to.
C11_ShutdownRemovesAliases ==
    \A g \in Threads :
        pc[g] = "sd_ret" =>
            \A e \in 1..Len(exts) :
                sigs[e] >= 1 => \A t \in TypeNames : Resolve(t) # ExternalProvider(e)

\* the IDs of the plugins in the external map
RegisteredIDs == {exts[e].Plugin.ID : e \in {x \in 1..Len(exts) : PublishedTypes(x) # {}}}

IsNoPluginsFound(err) ==
    \/ err = ErrNoPluginsFound
    \/ err = ErrFetch("no plugins found")

\* the directory does not exist
DirMissing(dir) == dir[1].err = "not exist"

\* the regular files of the directory tree that have no extension and whose
\* base name the filter accepts
Eligible(dir, filter) ==
    {dir[i].path : i \in {j \in 1..Len(dir) :
                            /\ ~dir[j].isDir
                            /\ Ext(Base(dir[j].path)) = ""
                            /\ Base(dir[j].path) \in filter}}

\* the whole tree could be read and holds no eligible file
NoCandidateSurvives(dir, filter) ==
    /\ \A i \in 1..Len(dir) : dir[i].err = "nil"
    /\ Eligible(dir, filter) = {}

\* the call of goroutine g spawned no process and wrote nothing to the
\* Registry: no capabilities query, no long-running process, the external
\* map as it was at the start, and no internal entry gone
LeftAsItWas(g) ==
    /\ mfr[g].queried = {}
    /\ mfr[g].launched = {}
    /\ Spawned = mfr[g].procs
    /\ externalPlugins = mfr[g].snap.ext
    /\ \A t \in TypeNames :
          mfr[g].snap.int[t] # NoImpl => internalPlugins[t] = mfr[g].snap.int[t]

\* C13 as stated: when the directory is missing or no candidate survives,
\* RegisterPlugins returns NoPluginsFound, the registry is as it was and no
\* process has been spawned.
C13_NoCandidateReturnsNoPluginsFound ==
    \A g \in Threads :
        (/\ mpc[g] = "rp_ret"
         /\ \/ DirMissing(mfr[g].dir)
            \/ NoCandidateSurvives(mfr[g].dir, mfr[g].filter))
        => /\ IsNoPluginsFound(mfr[g].err)
           /\ LeftAsItWas(g)

\* C13 amended: when the directory is missing or no candidate survives,
\* RegisterPlugins returns NoPluginsFound, or the connection-type error when
\* the probe that runs before discovery failed; either way the registry is
\* as it was and no process has been spawned.
C13_NoCandidateAbortsWithoutSpawning ==
    \A g \in Threads :
        (/\ mpc[g] = "rp_ret"
         /\ \/ DirMissing(mfr[g].dir)
            \/ NoCandidateSurvives(mfr[g].dir, mfr[g].filter))
        => /\ \/ IsNoPluginsFound(mfr[g].err)
              \/ mfr[g].err = ErrConnectionType
           /\ LeftAsItWas(g)

\* a call on a directory whose candidates the filter all rejects returns
\* NoPluginsFound while the registry holds plugins of an earlier batch
C13_Witness ==
    \E g \in Threads :
        /\ mpc[g] = "rp_ret"
        /\ mfr[g].dir = PluginsDir
        /\ NoCandidateSurvives(mfr[g].dir, mfr[g].filter)
        /\ mfr[g].err = ErrNoPluginsFound
        /\ Len(exts) > 0
        /\ \E t \in TypeNames : externalPlugins[t] # NoExt

\* the positions of RegisterPlugins between two candidates and at its end
BetweenCandidates == {"rp_loop", "rp_ret"}

InBatch == {"rp_loop", "rp_call", "rp_ret"}

\* C14: a candidate whose capabilities query failed or printed garbage is not
\* handed to the Registry, has no long-running process and is not registered;
\* the processes the batch started are those of the launched candidates; and
\* a batch that found candidates queries every one of them and returns nil.
C14_BadCapabilitiesSkipped ==
    \A g \in Threads :
        /\ mpc[g] \in InBatch =>
              \A c \in mfr[g].badcaps :
                  /\ c # mfr[g].cur
                  /\ c \notin mfr[g].launched
                  /\ c \notin mfr[g].registered
        /\ mpc[g] \in BetweenCandidates =>
              Spawned = mfr[g].procs + Cardinality(mfr[g].launched)
        /\ (mpc[g] = "rp_ret" /\ mfr[g].found # {}) =>
              /\ mfr[g].queried = mfr[g].found
              /\ mfr[g].err = Nil

\* the first candidate of the walk had bad capabilities and a later one is
\* in the registry when the batch returns nil
C14_Witness ==
    \E g \in Threads :
        /\ mpc[g] = "rp_ret"
        /\ mfr[g].err = Nil
        /\ <<"dir", "a", "p">> \in mfr[g].badcaps
        /\ <<"dir", "a", "q">> \in mfr[g].registered
        /\ \E t \in TypeNames :
              /\ externalPlugins[t] # NoExt
              /\ exts[externalPlugins[t]].Plugin.ID = "q"

\* C15 as stated: RegisterPlugins returns an error only when discovery
\* leaves no candidate or hits a filesystem error.
C15_FailsOnlyOnDiscovery ==
    \A g \in Threads :
        (mpc[g] = "rp_ret" /\ mfr[g].err # Nil)
        => \/ mfr[g].err = ErrNoPluginsFound
           \/ mfr[g].err.kind = "could not fetch plugins"

\* C15 amended: RegisterPlugins returns an error only when the probe could
\* not determine the connection type, when discovery leaves no candidate, or
\* when discovery hits a filesystem error; once discovery has found a
\* candidate the call returns nil whatever happens to the candidates.
C15_FailsOnlyBeforeTheBatch ==
    \A g \in Threads :
        mpc[g] = "rp_ret" =>
            /\ mfr[g].err # Nil =>
                  \/ mfr[g].err = ErrConnectionType
                  \/ mfr[g].err = ErrNoPluginsFound
                  \/ mfr[g].err.kind = "could not fetch plugins"
            /\ mfr[g].found # {} => mfr[g].err = Nil
            /\ mfr[g].err # Nil => mfr[g].queried = {}

\* a batch returns nil after one candidate failed its capabilities query,
\* one failed after its process was started, and one was rejected
C15_Witness ==
    \E g \in Threads :
        /\ mpc[g] = "rp_ret"
        /\ mfr[g].err = Nil
        /\ mfr[g].badcaps # {}
        /\ mfr[g].launched \ mfr[g].registered # {}
        /\ mfr[g].rejected # {}

\* C16: when AddExternalPlugin is about to return a duplicate error, the
\* command of the plugin was never started: no process was spawned since the
\* call began and no handshake was attempted.
C16_RejectedBeforeSpawning ==
    \A g \in Threads :
        (pc[g] = "ae_ret" /\ ret[g].err.kind \in ConflictKinds)
        => /\ fr[g].started = "none"
           /\ fr[g].handshake = NoHandshake
           /\ Spawned = fr[g].procs

\* a plugin is rejected for a type an earlier external plugin provides
C16_Witness ==
    \E g \in Threads :
        /\ pc[g] = "ae_ret"
        /\ ret[g].err.kind = "external plugin already registered"
        /\ fr[g].plugin.Types # {}
        /\ Spawned >= 1

\* C17 as stated: a candidate the Registry rejected for a duplicate type is
\* skipped, and the long-running process spawned for it is running and was
\* neither killed nor signalled.
C17_RejectedCandidateKeepsRunning ==
    \A g \in Threads :
        mpc[g] \in InBatch =>
            /\ \A c \in mfr[g].rejected :
                  /\ c \in mfr[g].launched
                  /\ c \notin mfr[g].registered
            /\ killed = {}
            /\ sigs = <<>>

\* C17 amended: a candidate the Registry rejected for a duplicate type is
\* skipped and no long-running process was ever started for it, so there is
\* nothing to retract; the batch goes on with the next candidate, and
\* RegisterPlugins kills and signals no process.
C17_RejectedCandidateNeverSpawned ==
    \A g \in Threads :
        /\ mpc[g] \in InBatch =>
              /\ \A c \in mfr[g].rejected :
                    /\ c \in mfr[g].queried
                    /\ c \notin mfr[g].launched
                    /\ c \notin mfr[g].registered
              /\ killed = {}
              /\ orphans.killed = 0
              /\ sigs = <<>>
        /\ mpc[g] \in BetweenCandidates =>
              Spawned - mfr[g].procs = Cardinality(mfr[g].launched)
        /\ (mpc[g] = "rp_ret" /\ mfr[g].rejected # {}) =>
              /\ mfr[g].queried = mfr[g].found
              /\ mfr[g].err = Nil

\* the first candidate of the walk was rejected as a duplicate and a later
\* one of the same batch was registered
C17_Witness ==
    \E g \in Threads :
        /\ mpc[g] = "rp_ret"
        /\ <<"dir", "a", "p">> \in mfr[g].rejected
        /\ <<"dir", "a", "q">> \in mfr[g].registered

\* C18: every candidate the batch queries, hands to the Registry or starts
\* has a base name the filter accepts, and the batch starts no process but
\* those of the candidates it launched.
C18_FilteredCandidateNeverSpawned ==
    \A g \in Threads :
        mpc[g] \in InBatch =>
            /\ \A c \in mfr[g].queried \cup mfr[g].launched
                          \cup mfr[g].registered :
                  Base(c) \in mfr[g].filter
            /\ mfr[g].cur # NoPath => Base(mfr[g].cur) \in mfr[g].filter
            /\ \A i \in 1..Len(mfr[g].queue) :
                  Base(mfr[g].queue[i]) \in mfr[g].filter
            /\ mpc[g] \in BetweenCandidates =>
                  Cardinality(mfr[g].launched) + mfr[g].procs = Spawned

\* a batch over a directory with three executables, two of which the filter
\* rejects, ends with the third one launched
C18_Witness ==
    \E g \in Threads :
        /\ mpc[g] = "rp_ret"
        /\ mfr[g].dir = PluginsDir
        /\ mfr[g].filter = {"q"}
        /\ mfr[g].queried = {<<"dir", "a", "q">>}
        /\ mfr[g].launched = {<<"dir", "a", "q">>}
        /\ Cardinality(Eligible(mfr[g].dir, AcceptAll)) = 3

\* C19: at most one goroutine is inside RegisterPlugins or the Manager's
\* Shutdown, and it is the one that holds pm.mu.
C19_ManagerCallsSerialized ==
    /\ Cardinality({g \in Threads : mpc[g] # "idle"}) <= 1
    /\ \A g \in Threads : mpc[g] # "idle" => pmu = g

\* a goroutine is in the middle of a batch, with candidates still to come,
\* after another call registered a plugin, while the other goroutine is out
C19_Witness ==
    \E g \in Threads, h \in Threads :
        /\ g # h
        /\ mpc[g] = "rp_call"
        /\ pc[g] = "ae_wait"
        /\ mfr[g].queue # <<>>
        /\ mfr[g].registered = {}
        /\ Len(exts) > 0
        /\ mpc[h] = "idle"

\* C20: only a cancelled base context kills a process, and when the
\* Manager's Shutdown is about to return it has sent an interrupt to the
\* process of every registered plugin and killed none.
C20_CancelKillsShutdownInterrupts ==
    /\ (killed # {} \/ orphans.killed > 0) => baseCtx = Cancelled
    /\ \A g \in Threads :
          (mpc[g] = "ms_call" /\ pc[g] = "sd_ret") =>
              \A e \in 1..Len(exts) :
                  PublishedTypes(e) # {} => sigs[e] >= 1

\* --------------------------------------------- claims on the command line
\* the characters the path handed to the command line is to be free of
Disallowed == {"'", "\"", "|", "&", ";", ":", "*", "!", "@", "#", "$"}

\* C21: the path the Manager puts on the command line, for the capabilities
\* query and for the spawn, has no disallowed character at any position.
C21_CommandPathHasNoDisallowedCharacter ==
    cmd.built =>
        \A i \in 1..Len(cmd.Arg) : cmd.Arg[i] \notin Disallowed

\* ------------------------------------------ claims on the External Runtime
Created == rt.state # "none"

\* C22: the in-flight counter starts at zero and is always the number of
\* StartWork calls minus the number of StopWork calls, whichever way the
\* calls of concurrent handlers interleave; after as many stops as starts it
\* is zero
C22_CounterIsStartsMinusStops ==
    Created =>
        /\ rt.workerCounter = rt.starts - rt.stops
        /\ rt.starts = rt.stops => rt.workerCounter = 0

\* every unit that was started has been stopped
C22_Witness ==
    /\ Created
    /\ rt.starts = MaxWork
    /\ rt.stops = MaxWork
    /\ rt.workerCounter = 0

IsIdle ==
    /\ Created
    /\ rt.state = "Ready"
    /\ rt.idleTimeout > 0
    /\ rt.workerCounter = 0
    /\ rt.idle >= rt.idleTimeout

\* C24: the idle shutdown begins only with the counter at zero, the idle
\* timeout elapsed since the last StartWork or StopWork and a timeout
\* configured; and once all that holds it does begin, unless new activity or
\* another trigger comes first
C24_IdleShutdownOnlyAndOnceIdle ==
    /\ [][(Created /\ rt.began = "none" /\ rt'.began = "idle") =>
            /\ rt.workerCounter = 0
            /\ rt.idleTimeout > 0
            /\ rt.idle >= rt.idleTimeout]_vars
    /\ [](Created /\ rt.idleTimeout = 0 => rt.began # "idle")
    /\ (IsIdle ~> (Created /\ (rt.began # "none" \/ rt.idle = 0)))

\* the idle shutdown began after work had been in flight and had ended
C24_Witness ==
    /\ Created
    /\ rt.began = "idle"
    /\ rt.starts > 0

\* the one teardown sequence, with the two ways its wait can end
TeardownSequences ==
    {<<"stop accepting", w, "close listener", "remove files", "exit">> :
        w \in {"drained", "grace expired"}}

IsPrefix(p, q) == Len(p) <= Len(q) /\ \A i \in 1..Len(p) : p[i] = q[i]

Done(r, step) == \E i \in 1..Len(r.steps) : r.steps[i] = step

\* C25: whichever of signal, POST /shutdown and idle expiry begins it, the
\* teardown is the same sequence in the same order: stop accepting, wait for
\* the counter or the grace period, close the listener, remove the files,
\* exit; and it runs once, however many triggers arrive
C25_OneTeardownSequence ==
    Created =>
        /\ \E q \in TeardownSequences : IsPrefix(rt.steps, q)
        /\ rt.teardowns <= 1
        /\ rt.teardowns = 1 <=> rt.began # "none"
        /\ rt.began # "none" => rt.began \in rt.triggers
        /\ rt.steps # <<>> <=> rt.began # "none"
        /\ rt.steps # <<>> => ~rt.accepting
        /\ Done(rt, "close listener") => rt.listener # "bound"
        /\ Done(rt, "remove files") => rt.files = {}
        /\ ~Done(rt, "remove files") /\ rt.listener # "none"
              /\ rt.connType = "unix" => rt.files = {"lock", "socket"}
        /\ rt.state = "Terminated" <=> Done(rt, "exit")

\* a process with a socket and a lock file went through the teardown to the
\* end, with all three triggers received on the way
C25_Witness ==
    /\ Created
    /\ rt.state = "Terminated"
    /\ rt.connType = "unix"
    /\ rt.triggers = {"signal", "shutdown", "idle"}

\* C26: a teardown that began ends with the exit of the process; the exit is
\* clean when the wait ended with the counter at zero and forced when the
\* grace period ran out with work in flight, and the two are told apart; a
\* handler that never returns does not keep the process alive
C26_TeardownTerminates ==
    /\ ((Created /\ rt.state = "Draining") ~> (Created /\ rt.state = "Terminated"))
    /\ [](Created /\ rt.state = "Terminated" =>
            /\ rt.exit \in {"clean", "forced"}
            /\ rt.exit = "clean" <=> Done(rt, "drained")
            /\ rt.exit = "forced" <=> Done(rt, "grace expired"))
    /\ [][(Created /\ rt.exit = "none" /\ rt'.exit = "clean") =>
             rt.workerCounter = 0]_vars
    /\ [][(Created /\ rt.exit = "none" /\ rt'.exit = "forced") =>
             rt.workerCounter # 0 /\ rt.grace >= GracePeriod]_vars

\* the process exited by force while a handler was still running
C26_Witness ==
    /\ Created
    /\ rt.state = "Terminated"
    /\ rt.exit = "forced"
    /\ \E h \in Handlers : rt.req[h] = "running"

\* C27: a request that arrives while the runtime drains is answered with a
\* refusal: its handler is not run, the counter is not incremented for it,
\* and it is not left without an answer
C27_RequestWhileDrainingRejected ==
    [][\A h \in Handlers :
          (Created /\ rt.state = "Draining" /\ RT_Request(h)) =>
              /\ rt'.req[h] = "rejected"
              /\ rt'.workerCounter = rt.workerCounter
              /\ rt'.starts = rt.starts]_vars

\* a request was refused while another handler was still in flight
C27_Witness ==
    /\ Created
    /\ rt.state = "Draining"
    /\ \E h \in Handlers : rt.req[h] = "rejected"
    /\ \E h \in Handlers : rt.req[h] = "running"

\* ------------------------------------------------ claims on the handshake
\* C28: the runtime prints its location as exactly one line of stdout, after
\* the listener is bound and before any request is accepted, and the reader
\* takes the location from that first line only: lines printed later leave
\* the location it uses as it is
C28_LocationIsTheFirstLineOnly ==
    Created =>
        /\ rt.wrote <= 1
        /\ Cardinality({i \in 1..Len(stdout) :
                           stdout[i] = LocationLine(rt.connType)}) = rt.wrote
        /\ rt.wrote = 1 =>
              /\ rt.listener = "bound"
              /\ stdout[1] = LocationLine(rt.connType)
        /\ (rt.accepting \/ \E h \in Handlers : rt.req[h] # "none") =>
              rt.wrote = 1
        /\ hs.pc = "wait" => hs.location = LocationLine(rt.connType)

\* the reader has its location, a request is being handled, and the process
\* has printed more lines since
C28_Witness ==
    /\ Created
    /\ hs.pc = "wait"
    /\ Len(stdout) = MaxLines
    /\ \E h \in Handlers : rt.req[h] = "running"

Blank(line) == \A i \in 1..Len(line) : line[i] \in WhiteSpace

ReadFailures == {"failed to read plugin location",
                 "plugin did not output connection location"}

\* C29: WaitForPlugin returns an error and no client, and does nothing more,
\* when the first line of stdout is empty, when the read fails or when the
\* stream ends before any line; with a non-empty first line it returns the
\* client and the location only when the readiness wait has returned success
C29_HandshakeFailsWithoutClient ==
    /\ [](hs.pc = "done" =>
            /\ stdout = <<>> => hs.err \in ReadFailures
            /\ stdout # <<>> /\ Blank(stdout[1]) =>
                  hs.err \in {"plugin output empty location",
                              "failed to read plugin location"}
            /\ hs.err # "nil" => ~hs.client /\ hs.location = <<>>
            /\ hs.err = "nil" =>
                  /\ hs.client
                  /\ stdout # <<>>
                  /\ ~Blank(stdout[1])
                  /\ hs.location = Trim(stdout[1], {" "})
                  /\ wr.pc = "done"
                  /\ wr.result = "ready")
    /\ [][hs.pc = "done" => hs' = hs /\ wr' = wr]_vars

\* the process printed a line of white space and the reader gave up on it
C29_Witness ==
    /\ hs.pc = "done"
    /\ stdout = << <<" ">> >>
    /\ hs.err = "plugin output empty location"

Outcomes == {"ready", "timeout", "cancelled"}

\* C30, as stated: waitForPluginReady returns success as soon as a poll
\* succeeds, the timeout error when no poll has succeeded by the ceiling of
\* 30 s, and the context's error when the context was cancelled before that;
\* it returns one of the three and does not poll after it returned
C30_OutcomeDecidedByWhatCameFirst ==
    wr.pc = "done" =>
        /\ wr.result \in Outcomes
        /\ wr.result = "ready" => wr.lastPoll = "ok" /\ wr.now <= ReadyTimeout
        /\ wr.now > ReadyTimeout /\ ~wr.cancelledFirst => wr.result = "timeout"
        /\ wr.cancelledFirst => wr.result = "cancelled"

\* C30, as the code has it: success is returned by the step in which a poll
\* succeeds and only by it, the timeout error only once the ceiling has
\* passed, the context's error only once the context is done; the loop
\* returns one of the three and neither polls nor waits after it returned
C30_OutcomesAreSound ==
    /\ [](wr.pc = "done" =>
            /\ wr.result \in Outcomes
            /\ wr.result = "ready" => wr.lastPoll = "ok"
            /\ wr.result = "timeout" => wr.fired /\ wr.now >= ReadyTimeout
            /\ wr.result = "cancelled" => baseCtx = Cancelled)
    /\ [][wr.pc = "call" =>
            (wr'.pc = "done" <=> wr'.lastPoll = "ok")]_vars
    /\ [][wr.pc = "select" /\ SelectReady(wr, baseCtx) = {} =>
            wr'.pc = "select"]_vars
    /\ [][wr.pc = "done" => wr' = wr]_vars

\* the loop gave up at the ceiling after polls that failed
C30_Witness ==
    /\ wr.pc = "done"
    /\ wr.result = "timeout"
    /\ wr.lastPoll = "failed"

\* ------------------------------------------------ claims on the lock file
Holders == {pid \in 1..Len(lk.proc) : lk.proc[pid] \in {"locked", "owner"}}

Parsed == cfg.assigned /\ cfg.parsed # Absent

\* C32, as stated: the Config parsed from the JSON of a Config is that
\* Config, field for field
C32_RoundTripIsIdentity ==
    Parsed => cfg.parsed = cfg.config

IsValidUTF8(str) == \A i \in 1..Len(str) : str[i] # "0xFF"

StringsOf(c) ==
    {c.ID, c.Type}
    \cup (IF c.ConfigTypes = Absent THEN {}
          ELSE {c.ConfigTypes.v[i].Type : i \in 1..Len(c.ConfigTypes.v)})

\* what the encoding keeps of a Config: an empty list is an absent one
Normal(c) ==
    [c EXCEPT !.ConfigTypes = IF @ = Present(<<>>) THEN Absent ELSE @]

\* C32, as the code has it: a Config whose strings are valid UTF-8 comes
\* back equal field for field, an absent idleTimeout and an absent list
\* staying absent, save that an empty list of config entries comes back
\* absent; and what came back survives a second round trip unchanged
C32_RoundTripUpToEmptyList ==
    Parsed =>
        /\ (\A str \in StringsOf(cfg.config) : IsValidUTF8(str)) =>
              cfg.parsed = Normal(cfg.config)
        /\ cfg.parsed.IdleTimeout = cfg.config.IdleTimeout
        /\ Unmarshal(Marshal(cfg.parsed)) = cfg.parsed

\* a Config with no idleTimeout, a valid ID and one entry with empty data
\* made the round trip
C32_Witness ==
    /\ Parsed
    /\ cfg.config.IdleTimeout = Absent
    /\ cfg.config.ID = <<"p">>
    /\ cfg.config.ConfigTypes # Absent
    /\ Len(cfg.config.ConfigTypes.v) = 1
    /\ cfg.config.ConfigTypes.v[1].Data = Present(<<>>)
    /\ cfg.parsed = cfg.config

\* ---------------------------------------------------- claims on discovery
IsCandidateByTheBook(e, filter) ==
    /\ e.mode = "regular"
    /\ Ext(Base(e.path)) = ""
    /\ Base(e.path) \in filter

PathsOf(entries) == [i \in 1..Len(entries) |-> entries[i].path]

\* C33: the candidates of a walk are exactly the regular files of the tree
\* whose name has no extension and whose base name the filter accepts, in
\* walk order; directories, names with an extension and non-regular entries
\* are no candidates
C33_CandidatesAreRegularFiles ==
    disc.walked =>
        /\ disc.result.err = "nil"
        /\ disc.result.plugins =
              PathsOf(SelectSeq(disc.tree,
                  LAMBDA e : IsCandidateByTheBook(e, disc.filter)))

\* ------------------------------------------- claims on the order of steps
\* the candidates of the call of g in discovery order
Discovered(g) == fetchPlugins(mfr[g].dir, mfr[g].filter).plugins

IsSuffix(q, t) ==
    /\ Len(q) <= Len(t)
    /\ \A i \in 1..Len(q) : q[i] = t[Len(t) - Len(q) + i]

InLoop(g) == mpc[g] \in {"rp_loop", "rp_call"}

\* where the call of g stands with its current candidate
StepOrder(g) ==
    /\ InLoop(g) =>
          /\ IsSuffix(mfr[g].queue, Discovered(g))
          /\ mfr[g].queried =
                {Discovered(g)[i] :
                    i \in 1..(Len(Discovered(g)) - Len(mfr[g].queue))}
    /\ mpc[g] = "rp_call" =>
          /\ mfr[g].cur \in mfr[g].queried
          /\ pc[g] \in {"ae_wait", "ae_publish"} => fr[g].started = "started"
          /\ pc[g] = "ae_publish" => WaitForPlugin(fr[g].handshake) = "nil"

\* what a step of the call of g may do to the order
StepOrderKept(g) ==
    /\ (mfr'[g].queried # mfr[g].queried /\ mpc'[g] # "idle") =>
          /\ mpc[g] = "rp_loop"
          /\ mfr[g].queue # <<>>
          /\ Head(mfr[g].queue) \notin mfr[g].queried
          /\ mfr'[g].queried = mfr[g].queried \cup {Head(mfr[g].queue)}
          /\ mfr'[g].queue = Tail(mfr[g].queue)
    /\ (fr'[g].started = "started" /\ fr[g].started # "started") =>
          /\ mpc[g] = "rp_call"
          /\ pc[g] = "ae_start"
          /\ mfr[g].cur \in mfr[g].queried
    /\ (pc'[g] = "ae_publish" /\ pc[g] # "ae_publish") =>
          /\ pc[g] = "ae_wait"
          /\ fr[g].started = "started"

\* C34: the capabilities query of a candidate runs once and is over before
\* its process is started, the start comes before the handshake, the
\* handshake before the publication, and the candidates are taken one at a
\* time in discovery order
C34_StepsInFixedOrder ==
    /\ [](\A g \in Threads : StepOrder(g))
    /\ [][/\ \A g \in Threads : StepOrderKept(g)
          /\ externalPlugins' # externalPlugins =>
                \E g \in Threads :
                    /\ pc[g] = "ae_publish"
                    /\ fr[g].started = "started"
                    /\ WaitForPlugin(fr[g].handshake) = "nil"]_vars

\* the second candidate of a batch is being published after the first went
\* through all its steps
C34_Witness ==
    \E g \in Threads :
        /\ mpc[g] = "rp_call"
        /\ pc[g] = "ae_publish"
        /\ Cardinality(mfr[g].queried) = 2
        /\ Cardinality(mfr[g].registered) = 1

\* ------------------------------------------ claims on the batch's Configs
\* the entries of a list of config entries, absent or not
Entries(l) == IF l = Absent THEN <<>> ELSE l.v

\* the Config a spawned plugin was given and the one it parsed
GivenTheBatchConfig(p) ==
    /\ p.Config.Type = cfg.conf.Type
    /\ p.Config.Type = IF cfg.probe = <<"ok">> THEN TypeString("unix")
                                               ELSE TypeString("tcp")
    /\ cfg.probe \in {<<"ok">>, <<"listen fails">>}
    /\ p.Config.ID = NameString(Base(p.Path))
    /\ p.Config.IdleTimeout = Present(cfg.opts.IdleTimeout)
    /\ p.Config.ConfigTypes = cfg.opts.ConfigData
    /\ p.received.ID = p.Config.ID
    /\ p.received.Type = p.Config.Type
    /\ p.received.IdleTimeout = p.Config.IdleTimeout
    /\ Entries(p.received.ConfigTypes) = Entries(p.Config.ConfigTypes)

\* C35: every plugin one call spawns gets the one connection type of the
\* call, unix when the probe could listen and tcp when it could not, chosen
\* by a single probe before any spawn; its Config has its own base file name
\* as ID and the caller's idle timeout and config entries
C35_OneTypePerBatchOwnIDPerPlugin ==
    /\ [](cfg # NoBatch =>
             /\ Len(cfg.probe) <= 1
             /\ \A i \in 1..Len(cfg.spawned) :
                   GivenTheBatchConfig(cfg.spawned[i]))
    /\ [][(cfg # NoBatch /\ cfg.pc # "probe") =>
             /\ cfg'.conf.Type = cfg.conf.Type
             /\ cfg'.probe = cfg.probe
             /\ cfg'.opts = cfg.opts]_vars

\* two plugins with different base names were spawned by one call that was
\* given config entries, over unix sockets
C35_Witness ==
    /\ cfg # NoBatch
    /\ Len(cfg.spawned) = 2
    /\ cfg.spawned[1].Config.ID # cfg.spawned[2].Config.ID
    /\ cfg.spawned[1].Config.Type = TypeString("unix")
    /\ cfg.opts.ConfigData # Absent
    /\ Len(cfg.opts.ConfigData.v) = 1

\* ------------------------------------------ claims on a failed handshake
\* the handshake of the plugin in the hands of g has just failed
HandshakeFailed(g) ==
    /\ pc[g] = "ae_ret"
    /\ ret[g].err.kind = "failed to wait for plugin to start"

GivesUpHandshake(g) == pc[g] = "ae_wait" /\ pc'[g] = "ae_ret"

InShutdown(g) == pc[g] \in {"sd_loop", "sd_ret"}

\* C36: when the handshake of a started plugin fails the process stays
\* behind running, held by no ExternalPlugin and published under no type,
\* killed by nobody at that point; RegisterPlugins absorbs the error and goes
\* on with the next candidate; a Shutdown signals only the processes of
\* ExternalPlugins, whose handshake succeeded, and leaves the others alone
C36_FailedHandshakeOrphansTheProcess ==
    /\ [](\A g \in Threads :
            /\ (HandshakeFailed(g) /\ baseCtx = Live) =>
                  /\ orphans.running >= 1
                  /\ WaitForPlugin(fr[g].handshake) # "nil"
            /\ InShutdown(g) =>
                  /\ Len(sigs) = Len(exts)
                  /\ \A e \in 1..Len(exts) :
                        sigs[e] >= 1 => WaitForPlugin(exts[e].handshake) = "nil")
    /\ [][/\ baseCtx = Live =>
                (orphans' = orphans \/ \E g \in Threads : GivesUpHandshake(g))
          /\ \A g \in Threads :
            /\ GivesUpHandshake(g) =>
                  /\ fr[g].started = "started"
                  /\ orphans'.running = orphans.running + 1
                  /\ orphans'.killed = orphans.killed
                  /\ killed' = killed
                  /\ exts' = exts
                  /\ externalPlugins' = externalPlugins
                  /\ sigs' = sigs
            /\ (HandshakeFailed(g) /\ mpc[g] = "rp_call" /\ pc'[g] = "idle") =>
                  /\ mpc'[g] = "rp_loop"
                  /\ mfr'[g].queue = mfr[g].queue
                  /\ mfr'[g].err = Nil
                  /\ mfr[g].cur \in mfr'[g].launched
                  /\ mfr[g].cur \notin mfr'[g].registered
            /\ InShutdown(g) => killed' = killed \/ baseCtx = Cancelled]_vars

\* a batch went on after a failed handshake: the first candidate's process
\* is an orphan and the second candidate was registered
C36_Witness ==
    \E g \in Threads :
        /\ mpc[g] = "rp_loop"
        /\ orphans.running = 1
        /\ Cardinality(mfr[g].launched) = 2
        /\ Cardinality(mfr[g].registered) = 1
        /\ baseCtx = Live

\* ------------------------------------------- claims on the call's context
Killed == killed # {} \/ orphans.killed > 0

\* C37: cancelling the context of a RegisterPlugins call, after the call or
\* at any other time, kills and signals no plugin and leaves the registry as
\* it is: only the base context kills a process, fails its start or ends
\* its handshake wait, and the call's context does no more than fail the
\* capabilities queries still to run
C37_CallContextGovernsOnlyQueries ==
    /\ [](/\ Killed => baseCtx = Cancelled
          /\ \A g \in Threads :
                /\ (pc[g] = "ae_ret" /\ fr[g].handshake.ready = "cancelled") =>
                      baseCtx = Cancelled
                /\ (mpc[g] = "rp_call" /\ pc[g] = "ae_ret"
                    /\ fr[g].started = "failed" /\ baseCtx = Live) =>
                      ret[g].err.kind = "failed to start plugin")
    /\ [][/\ callCtx' # callCtx =>
                /\ UNCHANGED <<killed, orphans, sigs, exts, externalPlugins,
                               internalPlugins, pc, mpc>>
          /\ \A g \in Threads :
                (callCtx = Cancelled /\ mfr'[g].queried # mfr[g].queried
                 /\ mpc'[g] # "idle") =>
                    /\ mpc'[g] = "rp_loop"
                    /\ mfr'[g].badcaps = mfr[g].badcaps \cup {Head(mfr[g].queue)}
                    /\ mfr'[g].launched = mfr[g].launched]_vars

\* the call returned having registered a plugin, then its context was
\* cancelled: the plugin is registered and its process alive
C37_Witness ==
    /\ callCtx = Cancelled
    /\ baseCtx = Live
    /\ mpc[Main] = "idle"
    /\ \E t \in TypeNames :
          /\ externalPlugins[t] # NoExt
          /\ exts[externalPlugins[t]].added
    /\ ~Killed

\* ------------------------------------------------ claims on the two locks
HoldsRegistry(g) == mu.writer = g \/ g \in mu.readers

\* g is inside a call of the Manager or of the Registry
Busy(g) == mpc[g] # "idle" \/ pc[g] # "idle"

\* g can take its next step, or waits for the Registry's lock in the hands
\* of a goroutine that can take its own
Advances(g) ==
    \/ ENABLED ConcurrentStep(g)
    \/ \E h \in Threads \ {g} : HoldsRegistry(h) /\ ENABLED ConcurrentStep(h)

\* C38: a goroutine inside a method of the Manager that holds the Registry's
\* lock holds pm.mu already, pm.mu is never taken by a goroutine that holds
\* the Registry's lock, and whatever the interleaving of RegisterPlugins,
\* RegisterInternalPlugin, GetPlugin and Shutdown no call is ever stuck: it
\* can step, or it waits for a lock whose holder can, and with locks that
\* starve nobody every call returns
C38_NoDeadlockManagerBeforeRegistry ==
    /\ [](\A g \in Threads :
             /\ (HoldsRegistry(g) /\ mpc[g] # "idle") => pmu = g
             /\ Busy(g) => Advances(g))
    /\ [][\A g \in Threads :
             (pmu' = g /\ pmu # g) => (~HoldsRegistry(g) /\ mu' = mu)]_vars
    /\ \A g \in Threads : Busy(g) ~> ~Busy(g)

\* one goroutine holds pm.mu and waits for the Registry's lock, which the
\* other holds for a GetPlugin
C38_Witness ==
    \E g \in Threads, h \in Threads :
        /\ pmu = g
        /\ mpc[g] \in {"rp_call", "ms_call"}
        /\ pc[g] = "idle"
        /\ h \in mu.readers
        /\ ~ENABLED ConcurrentStep(g)

\* ------------------------------------------- claims on repeated Shutdowns
\* C39: over any sequence of Shutdown calls no process is sent the interrupt
\* a second time
C39_NoProcessSignalledTwice == signalled.again = {}

\* -------------------------------------------- claims on a repeated batch
\* every type the plugin declares was in the external map, under a plugin
\* of its ID, when the RegisterPlugins call of g began
RegisteredBefore(g, plugin) ==
    /\ plugin.Types # {}
    /\ \A t \in plugin.Types :
          /\ mfr[g].snap.ext[t] # NoExt
          /\ exts[mfr[g].snap.ext[t]].Plugin.ID = plugin.ID

\* the candidates of the call of g whose capabilities were usable
Valid(g) == mfr[g].queried \ mfr[g].badcaps

====
